---------------------------- MODULE Spec2Model ----------------------------
(***************************************************************************)
(* A model of piano-ts: the PianoConverter pipeline (Time Rebaser, Note    *)
(* Pairer, Track Merger/Sorter, Quantizer, Chord Reducer, Notation         *)
(* Renderer, Line Formatter) and the TrackManager that selects the tracks  *)
(* handed to it.                                                           *)
(*                                                                         *)
(* Conventions.                                                            *)
(*  - A JavaScript string is a sequence of one-character strings.          *)
(*  - A JavaScript object is a record; a missing property is a missing     *)
(*    field.  A Record<number, T> is a function whose DOMAIN is the set of *)
(*    keys that have been assigned.                                        *)
(*  - A TypeError thrown by the code is the flag `threw` of the result.    *)
(*  - A number is an IEEE 754 double, kept exactly; where the code holds a  *)
(*    whole number (a pitch, a `begin` or `deltaTime` in ticks or in       *)
(*    milliseconds) the model holds an integer.                            *)
(***************************************************************************)
EXTENDS Integers, Sequences, FiniteSets, TLC

VARIABLES
    \* ---- Note Pairer (PianoConverter.opus2score), one loop iteration per step
    numTracks,                   \* opus.tracks.length
    opusTracks,                  \* the input tracks already paired
    opusTrack,                   \* the events of the current track consumed so far
    ticksSoFar,                  \* let ticksSoFar
    scoreTrack,                  \* const scoreTrack
    channelPitchToNoteOnEvents,  \* const channelPitchToNoteOnEvents
    scoreTracks,                 \* score.tracks
    pairerPc,                    \* "idle" | "start" | "loop" | "done" | "threw"
    \* ---- a parsed MIDI converted again and again by one PianoConverter whose
    \* options are set in between (README: "Another conversion with a different
    \* ticklag")
    midi,                        \* the MidiData handed to PianoConverter.toPiano
    tickLag,                     \* this.tickLag
    conversions,                 \* tickLag -> what toPiano did with that tickLag,
                                 \* since a line limit was last set
    \* ---- the line limits of the converter, set by the pipeline's setters and
    \* read by the Line Formatter
    lineLengthLim,               \* this.lineLengthLim
    linesLimit,                  \* this.linesLimit
    \* ---- TrackManager
    midiBuffer,                  \* this.midiBuffer, as the tracks parseMidi reads from it
    midiObject,                  \* <<>> (undefined) or <<the parsed tracks>>
    identifiedTracks,            \* Track[]
    modifiedMidiObject,          \* <<>> (undefined) or <<the tracks kept>>
    handed,                      \* what the last call, if toPiano, did
    \* ---- Notation Renderer (the note loop of obtainSheetMusic), one note per step
    octaveTranspose,             \* this.octaveTranspose
    rendered,                    \* the pitches rendered so far
    curAccidentals,                 \* let accidentals
    curOctaves,                     \* let octaves
    strings,                     \* data[0] of every note rendered so far
    \* ---- Line Formatter (explodeSheetMusic), one token per step
    sheetTokens,                 \* const splitMusic = sheetMusic.split(',')
    tokensRead,                  \* the tokens of sheetMusic.split(',') read so far
    splitList,                   \* const splitList
    counter,                     \* let counter
    lineCounter,                 \* let lineCounter
    explodePc,                   \* "idle" | "loop" | "break" | "threw" | "done"
    \* ---- Quantizer (obtainCommonDuration)
    quantScore,                \* the pairs [roundedDelta, noteNumber]
    commonDur,             \* const mostFrequentDur
    quantizerPc                  \* "idle" | "start" | "done"

pairerVars == <<numTracks, opusTracks, opusTrack, ticksSoFar, scoreTrack,
                channelPitchToNoteOnEvents, scoreTracks, pairerPc>>

pipelineVars == <<midi, tickLag, conversions>>

managerVars == <<midiBuffer, midiObject, identifiedTracks, modifiedMidiObject, handed>>

rendererVars == <<octaveTranspose, rendered, curAccidentals, curOctaves, strings>>

limitVars == <<lineLengthLim, linesLimit>>

formatterVars == <<sheetTokens, tokensRead, splitList, counter, lineCounter, explodePc>>

quantizerVars == <<quantScore, commonDur, quantizerPc>>

vars == <<pairerVars, pipelineVars, managerVars, rendererVars, limitVars, formatterVars,
          quantizerVars>>

\* what the steps of one component leave alone
\* (the line limits belong to the pipeline and to the Line Formatter)
notPairerVars ==
    <<pipelineVars, managerVars, rendererVars, limitVars, formatterVars, quantizerVars>>
notPipelineVars == <<pairerVars, managerVars, rendererVars, formatterVars, quantizerVars>>
notManagerVars ==
    <<pairerVars, pipelineVars, rendererVars, limitVars, formatterVars, quantizerVars>>
notRendererVars ==
    <<pairerVars, pipelineVars, managerVars, limitVars, formatterVars, quantizerVars>>
notFormatterVars == <<pairerVars, pipelineVars, managerVars, rendererVars, quantizerVars>>
notQuantizerVars ==
    <<pairerVars, pipelineVars, managerVars, rendererVars, limitVars, formatterVars>>

---------------------------------------------------------------------------
(* Bounds of the model *)

\* the events of one opus handed to the Note Pairer, over all its tracks
MaxEvents == 4
\* the tracks of one opus handed to the Note Pairer
MaxOpusTracks == 2
\* the events of one MIDI handed to toPiano, over all its tracks
MaxMidiEvents == 3
\* the tracks of one MIDI handed to toPiano
MaxMidiTracks == 2
\* the tracks of one MIDI given to TrackManager.setMidi
MaxManagerTracks == 3
\* the notes rendered in one run of the Notation Renderer
MaxNotes == 4
\* the tokens of one sheet handed to the Line Formatter
MaxTokens == 5
\* the notes of one quantized sequence
MaxScoreLen == 4

---------------------------------------------------------------------------
(* Generic helpers *)

\* the integer nearest to n / d for d > 0, a half rounds up
RoundRatio(n, d) == (2 * n + d) \div (2 * d)

RECURSIVE SumLens(_)
SumLens(ss) == IF ss = <<>> THEN 0 ELSE Len(Head(ss)) + SumLens(Tail(ss))

RECURSIVE Concat(_)
\* Array.prototype.reduce((merged, track) => merged.concat(track), [])
Concat(ss) == IF ss = <<>> THEN <<>> ELSE Head(ss) \o Concat(Tail(ss))

Min(S) == CHOOSE x \in S : \A y \in S : x <= y

RECURSIVE Ascending(_)
\* the elements of a finite set of integers in ascending order: the order in
\* which for..in visits the integer keys of an object
Ascending(S) ==
    IF S = {} THEN <<>> ELSE <<Min(S)>> \o Ascending(S \ {Min(S)})

\* {...obj, name: value}
WithField(obj, name, value) ==
    [f \in DOMAIN obj \cup {name} |-> IF f = name THEN value ELSE obj[f]]

---------------------------------------------------------------------------
(* Natural numbers of any size: a sequence of limbs, the least significant
   first, without a zero limb at the top; <<>> is 0. They carry the 53-bit
   significands of the numbers below, which an integer of the checker cannot. *)

\* the radix of the limbs
Base == 2^15

RECURSIVE BigFromInt(_)
BigFromInt(n) == IF n = 0 THEN <<>> ELSE <<n % Base>> \o BigFromInt(n \div Base)

RECURSIVE BigToInt(_)
BigToInt(a) == IF a = <<>> THEN 0 ELSE Head(a) + Base * BigToInt(Tail(a))

RECURSIVE BigTrim(_)
BigTrim(a) ==
    IF a = <<>> \/ a[Len(a)] # 0 THEN a ELSE BigTrim(SubSeq(a, 1, Len(a) - 1))

RECURSIVE BigCmpFrom(_, _, _)
BigCmpFrom(a, b, i) ==
    IF i = 0 THEN 0
    ELSE IF a[i] < b[i] THEN -1
    ELSE IF a[i] > b[i] THEN 1
    ELSE BigCmpFrom(a, b, i - 1)

BigCmp(a, b) ==
    IF Len(a) < Len(b) THEN -1
    ELSE IF Len(a) > Len(b) THEN 1
    ELSE BigCmpFrom(a, b, Len(a))

RECURSIVE BigAddC(_, _, _)
BigAddC(a, b, c) ==
    IF a = <<>> /\ b = <<>> THEN (IF c = 0 THEN <<>> ELSE <<c>>)
    ELSE LET x == (IF a = <<>> THEN 0 ELSE Head(a)) + (IF b = <<>> THEN 0 ELSE Head(b)) + c
         IN <<x % Base>> \o BigAddC(IF a = <<>> THEN a ELSE Tail(a),
                                     IF b = <<>> THEN b ELSE Tail(b), x \div Base)

BigAdd(a, b) == BigAddC(a, b, 0)

RECURSIVE BigSubB(_, _, _)
BigSubB(a, b, c) ==
    IF a = <<>> THEN <<>>
    ELSE LET x == Head(a) - (IF b = <<>> THEN 0 ELSE Head(b)) - c
         IN <<x % Base>> \o BigSubB(Tail(a), IF b = <<>> THEN b ELSE Tail(b),
                                     IF x < 0 THEN 1 ELSE 0)

BigSub(a, b) == BigTrim(BigSubB(a, b, 0))

RECURSIVE BigMulC(_, _, _)
BigMulC(a, k, c) ==
    IF a = <<>> THEN (IF c = 0 THEN <<>> ELSE <<c>>)
    ELSE LET x == Head(a) * k + c
         IN <<x % Base>> \o BigMulC(Tail(a), k, x \div Base)

BigMulSmall(a, k) == IF k = 0 THEN <<>> ELSE BigMulC(a, k, 0)

RECURSIVE BigMul(_, _)
BigMul(a, b) ==
    IF a = <<>> \/ b = <<>> THEN <<>>
    ELSE IF Len(a) < Len(b) THEN BigMul(b, a)
    ELSE BigAdd(BigMulSmall(a, Head(b)),
                IF Tail(b) = <<>> THEN <<>> ELSE <<0>> \o BigMul(a, Tail(b)))

RECURSIVE BigDivR(_, _, _, _)
\* the limbs i..1 of a divided by k, with r carried in from the limbs above
BigDivR(a, k, i, r) ==
    IF i = 0 THEN <<>>
    ELSE LET x == r * Base + a[i]
         IN Append(BigDivR(a, k, i - 1, x % k), x \div k)

BigDivSmall(a, k) == BigTrim(BigDivR(a, k, Len(a), 0))

RECURSIVE BigModR(_, _, _, _)
BigModR(a, k, i, r) ==
    IF i = 0 THEN r ELSE BigModR(a, k, i - 1, (r * Base + a[i]) % k)

BigModSmall(a, k) == BigModR(a, k, Len(a), 0)

BigShl(a, s) ==
    IF a = <<>> THEN <<>>
    ELSE [i \in 1..(s \div 15) |-> 0] \o BigMulSmall(a, 2^(s % 15))

BigShr(a, s) ==
    IF s \div 15 >= Len(a) THEN <<>>
    ELSE BigDivSmall(SubSeq(a, s \div 15 + 1, Len(a)), 2^(s % 15))

RECURSIVE BitsOf(_)
BitsOf(n) == IF n = 0 THEN 0 ELSE 1 + BitsOf(n \div 2)

BitLength(a) == IF a = <<>> THEN 0 ELSE 15 * (Len(a) - 1) + BitsOf(a[Len(a)])

RECURSIVE TrailingZeros(_)
TrailingZeros(n) == IF n % 2 = 1 THEN 0 ELSE 1 + TrailingZeros(n \div 2)

RECURSIVE BigDigit(_, _, _)
\* the largest digit g <= guess with d * g <= r
BigDigit(r, d, guess) ==
    IF BigCmp(BigMulSmall(d, guess), r) > 0 THEN BigDigit(r, d, guess - 1) ELSE guess

RECURSIVE BigLongDiv(_, _, _, _)
\* long division: the limbs i..1 of a are brought down onto the remainder r, one
\* at a time; the top limb of d is at least Base / 2, which keeps the guess of
\* each digit within two of the digit
BigLongDiv(a, d, i, r) ==
    IF i = 0 THEN [q |-> <<>>, r |-> r]
    ELSE LET cur == BigTrim(<<a[i]>> \o r)
             n == Len(d)
             top == (IF Len(cur) > n THEN cur[n + 1] * Base ELSE 0)
                    + (IF Len(cur) >= n THEN cur[n] ELSE 0)
             guess == IF top \div d[n] < Base THEN top \div d[n] ELSE Base - 1
             g == IF Len(cur) < n THEN 0 ELSE BigDigit(cur, d, guess)
             rest == BigLongDiv(a, d, i - 1, BigSub(cur, BigMulSmall(d, g)))
         IN [q |-> Append(rest.q, g), r |-> rest.r]

\* the quotient and the remainder of a / d, for d > 0
BigDivMod(a, d) ==
    LET sh == 15 - BitsOf(d[Len(d)])
        num == BigShl(a, sh)
        res == BigLongDiv(num, BigShl(d, sh), Len(num), <<>>)
    IN [q |-> BigTrim(res.q), r |-> BigShr(res.r, sh)]

---------------------------------------------------------------------------
(* JavaScript numbers: IEEE 754 doubles. A finite number >= 0 is m * 2^e with m
   odd (0 is m = <<>>, e = 0), so that equal numbers are equal records. Every
   operation gives the double nearest to the exact result, a tie going to the
   even significand. The program never makes a negative number (a deltaTime of
   a parsed MIDI is >= 0), and none is represented; nor are subnormal numbers
   and overflow to Infinity, which no duration in milliseconds comes near. *)

\* undefined, or NaN, where the model holds an integer (a pitch, a time or a
\* duration in whole ticks or milliseconds, none of which is ever negative)
undefined == -1

\* Infinity where the model holds an integer
PositiveInfinity == -2

Digits == <<"0", "1", "2", "3", "4", "5", "6", "7", "8", "9">>

Finite(m, e) == [kind |-> "number", m |-> m, e |-> e]
NaN == [kind |-> "NaN", m |-> <<>>, e |-> 0]
Infinity == [kind |-> "Infinity", m |-> <<>>, e |-> 0]
\* the value undefined where a number is expected: arithmetic turns it into NaN
undefinedNumber == [kind |-> "undefined", m |-> <<>>, e |-> 0]
Zero == Finite(<<>>, 0)
IsNumber(x) == x.kind = "number"
IsNaN(x) == x.kind \in {"NaN", "undefined"}
IsZero(x) == IsNumber(x) /\ x.m = <<>>

\* a === b on numbers: NaN is equal to nothing, undefined to undefined
StrictEquals(a, b) == a.kind # "NaN" /\ b.kind # "NaN" /\ a = b

RECURSIVE Canon(_, _)
\* m * 2^e with the factors of two moved from m to e
Canon(m, e) ==
    IF m = <<>> THEN Zero
    ELSE IF Head(m) = 0 THEN Canon(Tail(m), e + 15)
    ELSE LET z == TrailingZeros(Head(m))
         IN Finite(IF z = 0 THEN m ELSE BigShr(m, z), e + z)

\* the double nearest to m * 2^e, or to a little more than it when `sticky`
Nearest(m, e, sticky) ==
    LET s == BitLength(m) - 53 IN
    IF s <= 0 THEN Canon(m, e)
    ELSE LET q == BigShr(m, s)
             c == BigCmp(BigSub(m, BigShl(q, s)), BigShl(<<1>>, s - 1))
             up == c > 0 \/ (c = 0 /\ (sticky \/ Head(q) % 2 = 1))
         IN Canon(IF up THEN BigAddC(q, <<>>, 1) ELSE q, e + s)

\* the integer n as a number; of the integers, undefined stands for NaN and
\* PositiveInfinity for Infinity
Num(n) ==
    IF n = undefined THEN NaN
    ELSE IF n = PositiveInfinity THEN Infinity
    ELSE Canon(BigFromInt(n), 0)

\* the integer a whole number is
IntOf(x) ==
    IF IsNaN(x) THEN undefined
    ELSE IF ~IsNumber(x) THEN PositiveInfinity
    ELSE BigToInt(BigShl(x.m, x.e))

\* a * b
Times(a, b) ==
    IF IsNaN(a) \/ IsNaN(b) THEN NaN
    ELSE IF ~IsNumber(a) \/ ~IsNumber(b)
         THEN (IF IsZero(a) \/ IsZero(b) THEN NaN ELSE Infinity)
    ELSE IF IsZero(a) \/ IsZero(b) THEN Zero
    ELSE Nearest(BigMul(a.m, b.m), a.e + b.e, FALSE)

\* a / b
Over(a, b) ==
    IF IsNaN(a) \/ IsNaN(b) THEN NaN
    ELSE IF ~IsNumber(a) THEN (IF IsNumber(b) THEN Infinity ELSE NaN)
    ELSE IF ~IsNumber(b) THEN Zero
    ELSE IF IsZero(b) THEN (IF IsZero(a) THEN NaN ELSE Infinity)
    ELSE IF IsZero(a) THEN Zero
    ELSE LET s == 55 + BitLength(b.m) - BitLength(a.m)
             r == BigDivMod(BigShl(a.m, s), b.m)
         IN Nearest(r.q, a.e - b.e - s, r.r # <<>>)

\* a + b
Plus(a, b) ==
    IF IsNaN(a) \/ IsNaN(b) THEN NaN
    ELSE IF ~IsNumber(a) \/ ~IsNumber(b) THEN Infinity
    ELSE IF IsZero(a) THEN b
    ELSE IF IsZero(b) THEN a
    ELSE LET e == IF a.e < b.e THEN a.e ELSE b.e
         IN Nearest(BigAdd(BigShl(a.m, a.e - e), BigShl(b.m, b.e - e)), e, FALSE)

\* a - b, for a >= b
Minus(a, b) ==
    IF IsNaN(a) \/ IsNaN(b) THEN NaN
    ELSE IF ~IsNumber(b) THEN NaN
    ELSE IF ~IsNumber(a) THEN Infinity
    ELSE IF IsZero(b) THEN a
    ELSE IF a = b THEN Zero
    ELSE LET e == IF a.e < b.e THEN a.e ELSE b.e
         IN Nearest(BigSub(BigShl(a.m, a.e - e), BigShl(b.m, b.e - e)), e, FALSE)

\* Math.floor(x)
MathFloor(x) ==
    IF ~IsNumber(x) \/ x.e >= 0 THEN x ELSE Canon(BigShr(x.m, 0 - x.e), 0)

\* Math.round(x): the nearest integer, a half rounds up
MathRound(x) ==
    IF ~IsNumber(x) \/ x.e >= 0 THEN x
    ELSE LET q == BigShr(x.m, 0 - x.e)
             half == BigCmp(BigSub(x.m, BigShl(q, 0 - x.e)), BigShl(<<1>>, 0 - x.e - 1)) >= 0
         IN Canon(IF half THEN BigAddC(q, <<>>, 1) ELSE q, 0)

\* a + b on integers, of which either may be NaN or Infinity
Sum(a, b) ==
    IF a = undefined \/ b = undefined THEN undefined
    ELSE IF a = PositiveInfinity \/ b = PositiveInfinity THEN PositiveInfinity
    ELSE a + b

\* a - b on integers, of which either may be NaN or Infinity; Infinity is
\* never taken from a smaller number (times only grow along a track)
Difference(a, b) ==
    IF a = undefined \/ b \in {undefined, PositiveInfinity} THEN undefined
    ELSE IF a = PositiveInfinity THEN PositiveInfinity
    ELSE a - b

---------------------------------------------------------------------------
(* MIDI events (midi-file's MidiEvent), as far as the converter reads them *)

NoteOn(d, c, p, v) ==
    [type |-> "noteOn", deltaTime |-> d, channel |-> c, noteNumber |-> p, velocity |-> v]
NoteOff(d, c, p) ==
    [type |-> "noteOff", deltaTime |-> d, channel |-> c, noteNumber |-> p, velocity |-> 0]
Controller(d) ==
    [type |-> "controller", deltaTime |-> d]
SetTempo(d, us) ==
    [type |-> "setTempo", deltaTime |-> d, microsecondsPerBeat |-> us]
ProgramChange(d, c, n) ==
    [type |-> "programChange", deltaTime |-> d, channel |-> c, programNumber |-> n]

---------------------------------------------------------------------------
(* Note Pairer: PianoConverter.opus2score *)

\* const key = cha * 128 + pitch
PairKey(ev) == ev.channel * 128 + ev.noteNumber

\* opusEvent.type === "noteOff" || (opusEvent.type === "noteOn" && opusEvent.velocity === 0)
IsNoteOffEvent(ev) ==
    ev.type = "noteOff" \/ (ev.type = "noteOn" /\ ev.velocity = 0)

\* if (channelPitchToNoteOnEvents[key]): an array, even an empty one, is truthy
HasQueue(pending, key) == key \in DOMAIN pending

\* a mutant of shift: the most recent pending note is taken
shift_last(queue) ==
    [event |-> queue[Len(queue)], rest |-> SubSeq(queue, 1, Len(queue) - 1)]

\* channelPitchToNoteOnEvents[key].shift(), of a non-empty array
shift(queue) ==
    [event |-> Head(queue), rest |-> Tail(queue)]

\* channelPitchToNoteOnEvents[key].push(newEvent), or [newEvent] for a new key
PushPending(pending, key, newEvent) ==
    IF HasQueue(pending, key)
    THEN [pending EXCEPT ![key] = Append(@, newEvent)]
    ELSE [k \in DOMAIN pending \cup {key} |-> IF k = key THEN <<newEvent>> ELSE pending[k]]

\* One iteration of `for (const opusEvent of opusTrack)`, on the loop's state
\* p = [ticksSoFar, scoreTrack, pending, threw].
opus2scoreEvent(p, opusEvent) ==
    LET t == Sum(p.ticksSoFar, opusEvent.deltaTime) IN
    IF IsNoteOffEvent(opusEvent) THEN
        LET key == PairKey(opusEvent) IN
        IF HasQueue(p.pending, key) THEN
            IF p.pending[key] = <<>>
            THEN \* shift() of an empty array is undefined: setting deltaTime throws
                 [p EXCEPT !.ticksSoFar = t, !.threw = TRUE]
            ELSE LET s == shift(p.pending[key])
                     newEvent == [s.event EXCEPT !.deltaTime = Difference(t, s.event.begin)]
                 IN [ticksSoFar |-> t,
                     scoreTrack |-> Append(p.scoreTrack, newEvent),
                     pending    |-> [p.pending EXCEPT ![key] = s.rest],
                     threw      |-> FALSE]
        ELSE [p EXCEPT !.ticksSoFar = t]
    ELSE IF opusEvent.type = "noteOn" THEN
        LET key == PairKey(opusEvent)
            newEvent == [type |-> "note", begin |-> t, deltaTime |-> 0,
                         channel |-> opusEvent.channel,
                         noteNumber |-> opusEvent.noteNumber,
                         velocity |-> opusEvent.velocity]
        IN [p EXCEPT !.ticksSoFar = t,
                     !.pending = PushPending(p.pending, key, newEvent)]
    ELSE [p EXCEPT !.ticksSoFar = t,
                   !.scoreTrack = Append(@, WithField(opusEvent, "begin", t))]

\* `for (const newEvent of noteOnEvents)`: the unterminated notes of one key
Unterminated(queue, t) ==
    [i \in 1..Len(queue) |-> [queue[i] EXCEPT !.deltaTime = Difference(t, queue[i].begin)]]

RECURSIVE UnterminatedAll(_, _, _)
UnterminatedAll(keys, pending, t) ==
    IF keys = <<>> THEN <<>>
    ELSE Unterminated(pending[Head(keys)], t) \o UnterminatedAll(Tail(keys), pending, t)

\* "Check for unterminated notes": the score track once the track's events are read
FinishTrack(p) ==
    p.scoreTrack \o UnterminatedAll(Ascending(DOMAIN p.pending), p.pending, p.ticksSoFar)

NewTrackState ==
    [ticksSoFar |-> 0, scoreTrack |-> <<>>, pending |-> <<>>, threw |-> FALSE]

RECURSIVE opus2scoreLoop(_, _)
opus2scoreLoop(p, events) ==
    IF events = <<>> \/ p.threw THEN p
    ELSE opus2scoreLoop(opus2scoreEvent(p, Head(events)), Tail(events))

\* the body of `for (const opusTrack of tracks)`
opus2scoreTrack(opusTrk) ==
    LET p == opus2scoreLoop(NewTrackState, opusTrk) IN
    [threw |-> p.threw, track |-> IF p.threw THEN <<>> ELSE FinishTrack(p)]

RECURSIVE opus2scoreTracks(_)
opus2scoreTracks(tracks) ==
    IF tracks = <<>> THEN [threw |-> FALSE, tracks |-> <<>>]
    ELSE LET h == opus2scoreTrack(Head(tracks)) IN
         IF h.threw THEN [threw |-> TRUE, tracks |-> <<>>]
         ELSE LET r == opus2scoreTracks(Tail(tracks)) IN
              [threw |-> r.threw,
               tracks |-> IF r.threw THEN <<>> ELSE <<h.track>> \o r.tracks]

\* PianoConverter.opus2score
opus2score(opus) ==
    IF Len(opus.tracks) < 2
    THEN [threw |-> FALSE, tpq |-> 1000, tracks |-> <<>>]
    ELSE LET r == opus2scoreTracks(opus.tracks) IN
         [threw |-> r.threw, tpq |-> opus.tpq, tracks |-> r.tracks]

---------------------------------------------------------------------------
(* The converter's configuration: the constructor's options *)

\* the decimal literal n/10, as 0.5 or 1.1
Tenths(n) == Over(Num(n), Num(10))

DefaultConfig ==
    [lineLengthLim |-> 50, linesLimit |-> 200, tickLag |-> Tenths(5), octaveTranspose |-> 0,
     floatPrecision |-> 2, octaveKeys |-> 12, highestOctave |-> 8,
     endOfLineChar |-> <<"\n">>]

\* this.timeQuanta = 100 * this.tickLag
timeQuanta(cfg) == Times(Num(100), cfg.tickLag)

\* this.overallImportLimit = 2 * this.lineLengthLim * this.linesLimit
overallImportLimit(cfg) == 2 * cfg.lineLengthLim * cfg.linesLimit

---------------------------------------------------------------------------
(* midi2opus and the Time Rebaser: PianoConverter.toMs *)

\* header.ticksPerFrame ? header.ticksPerFrame * header.ticksPerBeat
\*                      : header.ticksPerBeat ? header.ticksPerBeat : 160
\* (a header of SMPTE timing has ticksPerFrame and no ticksPerBeat: the product
\* with undefined is NaN)
headerTpq(header) ==
    IF "ticksPerFrame" \in DOMAIN header /\ header.ticksPerFrame # 0
    THEN IF "ticksPerBeat" \in DOMAIN header
         THEN header.ticksPerFrame * header.ticksPerBeat
         ELSE undefined
    ELSE IF "ticksPerBeat" \in DOMAIN header /\ header.ticksPerBeat # 0
         THEN header.ticksPerBeat
         ELSE 160

\* PianoConverter.midi2opus: the events are copied as they are
midi2opus(header, tracks) == [tpq |-> headerTpq(header), tracks |-> tracks]

\* a mutant of MillisecPerBeat: MIDI's default tempo of 120 BPM
MillisecPerBeat_120 == 1000 \div 2

\* the 1000.0 of `var millisecPerOldTick = 1000.0 / Math.round(tpq)`
MillisecPerBeat == 1000

\* 1000.0 / Math.round(tpq)
initialMillisecPerOldTick(tpq) == Over(Num(MillisecPerBeat), MathRound(Num(tpq)))

\* Math.round(millisecSoFar - previousMillisecSoFar)
rebasedDeltaTime(millisecSoFar, previousMillisecSoFar) ==
    IntOf(MathRound(Minus(millisecSoFar, previousMillisecSoFar)))

\* One iteration of `for (const oldEvent of oldTrack)` on the state
\* r = [rate, soFar, previous, newTrack]; rate, soFar and previous are
\* millisecPerOldTick, millisecSoFar and previousMillisecSoFar.
toMsEvent(r, oldEvent, tpq) ==
    LET soFar == Plus(r.soFar, Times(r.rate, Num(oldEvent.deltaTime)))
        newEvent == [oldEvent EXCEPT !.deltaTime = rebasedDeltaTime(soFar, r.previous)]
    IN IF oldEvent.type = "setTempo"
       THEN [r EXCEPT !.soFar = soFar,
                      !.rate = Over(Num(oldEvent.microsecondsPerBeat),
                                    Times(Num(1000), Num(tpq)))]
       ELSE [r EXCEPT !.soFar = soFar, !.previous = soFar,
                      !.newTrack = Append(@, newEvent)]

RECURSIVE toMsEvents(_, _, _)
toMsEvents(r, oldTrack, tpq) ==
    IF oldTrack = <<>> THEN r
    ELSE toMsEvents(toMsEvent(r, Head(oldTrack), tpq), Tail(oldTrack), tpq)

\* the body of `for (const oldTrack of oldTracks)`: millisecSoFar restarts at 0,
\* millisecPerOldTick is whatever the tracks before left it at
toMsTrack(rate, oldTrack, tpq) ==
    toMsEvents([rate |-> rate, soFar |-> Zero, previous |-> Zero,
                newTrack |-> <<SetTempo(0, 1000000)>>], oldTrack, tpq)

RECURSIVE toMsTracks_reset(_, _, _)
\* a mutant of toMsTracks: every track starts at the rate the first one started at
toMsTracks_reset(rate, oldTracks, tpq) ==
    IF oldTracks = <<>> THEN <<>>
    ELSE <<toMsTrack(rate, Head(oldTracks), tpq).newTrack>>
         \o toMsTracks_reset(rate, Tail(oldTracks), tpq)

RECURSIVE toMsTracks(_, _, _)
toMsTracks(rate, oldTracks, tpq) ==
    IF oldTracks = <<>> THEN <<>>
    ELSE LET r == toMsTrack(rate, Head(oldTracks), tpq) IN
         <<r.newTrack>> \o toMsTracks(r.rate, Tail(oldTracks), tpq)

\* PianoConverter.toMs
toMs(oldOpus) ==
    [tpq |-> 1000,
     tracks |-> toMsTracks(initialMillisecPerOldTick(oldOpus.tpq), oldOpus.tracks, oldOpus.tpq)]

\* PianoConverter.midi2scoreNoTick
midi2scoreNoTick(header, tracks) == opus2score(toMs(midi2opus(header, tracks)))

---------------------------------------------------------------------------
(* Track Merger and Sorter *)

\* PianoConverter.condition
condition(event) == "type" \in DOMAIN event /\ event.type = "note"

\* PianoConverter.filterEventsFromScore
filterEventsFromScore(score) ==
    [score EXCEPT !.tracks =
        [i \in 1..Len(score.tracks) |-> SelectSeq(score.tracks[i], condition)]]

\* PianoConverter.filterEmptyTracks
filterEmptyTracks(score) ==
    [score EXCEPT !.tracks = SelectSeq(score.tracks, LAMBDA t : Len(t) > 0)]

\* PianoConverter.mergeEvents
mergeEvents(score) == [score EXCEPT !.tracks = <<Concat(score.tracks)>>]

\* The sign of (a, b) => a.begin - b.begin as the sort reads it: a NaN, which is
\* what Infinity less Infinity is too, counts as 0
SortCompare(a, b) ==
    IF a.begin = undefined \/ b.begin = undefined THEN 0
    ELSE IF a.begin = PositiveInfinity THEN (IF b.begin = PositiveInfinity THEN 0 ELSE 1)
    ELSE IF b.begin = PositiveInfinity THEN -1
    ELSE IF a.begin < b.begin THEN -1
    ELSE IF a.begin > b.begin THEN 1
    ELSE 0

\* The run that the sort finds at the head of the track: strictly descending
\* when the second event compares below the first, else non-descending; it ends
\* before the first event that does not continue it, and a descending run is
\* reversed in place.
CountAndMakeRun(track) ==
    LET isDescending == SortCompare(track[2], track[1]) < 0
        Continues(idx) ==
            IF isDescending THEN SortCompare(track[idx], track[idx - 1]) < 0
            ELSE SortCompare(track[idx], track[idx - 1]) >= 0
        Runs == {k \in 2..Len(track) : \A idx \in 3..k : Continues(idx)}
        runLength == CHOOSE k \in Runs : \A j \in Runs : j <= k
    IN [runLength |-> runLength,
        workArray |-> IF isDescending
                      THEN [i \in 1..Len(track) |->
                               IF i <= runLength THEN track[runLength + 1 - i] ELSE track[i]]
                      ELSE track]

RECURSIVE InsertionPoint(_, _, _, _)
\* the binary search of the sorted events left..(right - 1) for the place of
\* the pivot: after every event that the pivot does not compare below
InsertionPoint(workArray, pivot, left, right) ==
    IF left >= right THEN left
    ELSE LET mid == left + (right - left) \div 2
         IN IF SortCompare(pivot, workArray[mid]) < 0
            THEN InsertionPoint(workArray, pivot, left, mid)
            ELSE InsertionPoint(workArray, pivot, mid + 1, right)

RECURSIVE BinaryInsertionSort(_, _)
\* the events from `start` on are put, one after another, at their place among
\* the sorted events before them
BinaryInsertionSort(workArray, start) ==
    IF start > Len(workArray) THEN workArray
    ELSE LET Placed(left) ==
                 SubSeq(workArray, 1, left - 1) \o <<workArray[start]>>
                 \o SubSeq(workArray, left, start - 1)
                 \o SubSeq(workArray, start + 1, Len(workArray))
         IN BinaryInsertionSort(
                Placed(InsertionPoint(workArray, workArray[start], 1, start)), start + 1)

\* The track as one run and binary insertions leave it: what V8 does with an
\* array of fewer than 64 elements. Among events whose begin is a number (or
\* Infinity) the comparator is consistent and this is the stable sort, the
\* result of every engine for every length.
InsertionSorted(track) ==
    LET Sorted(run) == BinaryInsertionSort(run.workArray, run.runLength + 1)
    IN IF Len(track) < 2 THEN track ELSE Sorted(CountAndMakeRun(track))

\* Where a begin is NaN the comparator is not consistent and the order is the
\* engine's: it is followed below 64 elements, where V8 makes no merge
SortDetermined(track) ==
    Len(track) < 64 \/ \A i \in 1..Len(track) : track[i].begin # undefined

\* sorted holds the events of track, each as many times
IsPermutation(sorted, track) ==
    /\ Len(sorted) = Len(track)
    /\ \A i \in 1..Len(track) :
           Cardinality({j \in 1..Len(sorted) : sorted[j] = track[i]})
           = Cardinality({j \in 1..Len(track) : track[j] = track[i]})

\* track.slice().sort((a, b) => a.begin - b.begin): the orders the sort may
\* leave the events in. It is one order where the sort is determined, and any
\* order of the events where it is not (64 events or more, of which some begin
\* is NaN).
SortByBegin(track) ==
    IF SortDetermined(track) THEN {InsertionSorted(track)}
    ELSE {sorted \in [1..Len(track) -> {track[i] : i \in 1..Len(track)}] :
             IsPermutation(sorted, track)}

RECURSIVE SortedTracks(_)
\* score.tracks.map((track) => track.slice().sort(...)): the lists of tracks the
\* map may return
SortedTracks(tracks) ==
    IF tracks = <<>> THEN {<<>>}
    ELSE {<<sorted>> \o rest : sorted \in SortByBegin(Head(tracks)),
                               rest \in SortedTracks(Tail(tracks))}

\* PianoConverter.sortScoreByEventTimes: the scores it may return
sortScoreByEventTimes(score) ==
    {[score EXCEPT !.tracks = sortedTracks] : sortedTracks \in SortedTracks(score.tracks)}

---------------------------------------------------------------------------
(* Quantizer *)

\* { ...track[track.length - 1], deltaTime: 1000 }: of an empty track the last
\* event is undefined and the result is the object {deltaTime: 1000}
LastEvent(track) ==
    IF track = <<>> THEN <<[deltaTime |-> 1000]>>
    ELSE <<[track[Len(track)] EXCEPT !.deltaTime = 1000]>>

\* the body of `for (const track of tracks)` in convertIntoSecondsPerTicks
convertTrack(track) ==
    (IF Len(track) < 2 THEN <<>>
     ELSE [i \in 1..(Len(track) - 1) |->
              [track[i] EXCEPT !.deltaTime = Difference(track[i + 1].begin, track[i].begin)]])
    \o LastEvent(track)

\* PianoConverter.convertIntoSecondsPerTicks
convertIntoSecondsPerTicks(score) ==
    [tpq |-> score.tpq,
     tracks |-> [i \in 1..Len(score.tracks) |-> convertTrack(score.tracks[i])]]

\* Math.round(noteEvent.deltaTime / this.timeQuanta) * this.timeQuanta
roundedDelta(deltaTime, quanta) == Times(MathRound(Over(Num(deltaTime), quanta)), quanta)

\* PianoConverter.performRoundation: pairs [roundedDelta, noteNumber]
performRoundation(score, cfg) ==
    [i \in 1..Len(score.tracks[1]) |->
        LET noteEvent == score.tracks[1][i] IN
        <<roundedDelta(IF "deltaTime" \in DOMAIN noteEvent
                       THEN noteEvent.deltaTime ELSE undefined, timeQuanta(cfg)),
          IF "noteNumber" \in DOMAIN noteEvent THEN noteEvent.noteNumber ELSE undefined>>]

RECURSIVE Unique(_, _)
\* Array.from(new Set(durations)): the values in the order of their first occurrence
Unique(durations, seen) ==
    IF durations = <<>> THEN <<>>
    ELSE IF Head(durations) \in seen THEN Unique(Tail(durations), seen)
         ELSE <<Head(durations)>> \o Unique(Tail(durations), seen \cup {Head(durations)})

\* durations.filter((d) => d === dur).length
CountOf(durations, dur) ==
    Cardinality({i \in 1..Len(durations) : StrictEquals(durations[i], dur)})

\* a mutant of IndexOfHighest: the last of the most frequent durations
IndexOfHighest_last(durationsCount) ==
    CHOOSE i \in 1..Len(durationsCount) :
        /\ \A j \in 1..Len(durationsCount) : durationsCount[j] <= durationsCount[i]
        /\ \A j \in (i + 1)..Len(durationsCount) : durationsCount[j] < durationsCount[i]

\* durationsCount.indexOf(Math.max(...durationsCount)), of a non-empty array,
\* as a 1-based index
IndexOfHighest(durationsCount) ==
    CHOOSE i \in 1..Len(durationsCount) :
        /\ \A j \in 1..Len(durationsCount) : durationsCount[j] <= durationsCount[i]
        /\ \A j \in 1..(i - 1) : durationsCount[j] < durationsCount[i]

\* (dur) => dur !== 0
NonZero(dur) == ~IsZero(dur)

\* PianoConverter.obtainCommonDuration
obtainCommonDuration(score) ==
    LET durations == SelectSeq([i \in 1..Len(score) |-> score[i][1]], NonZero)
        uniqueDurations == Unique(durations, {})
        durationsCount == [i \in 1..Len(uniqueDurations) |->
                              CountOf(durations, uniqueDurations[i])]
    IN IF uniqueDurations = <<>>
       THEN undefinedNumber    \* uniqueDurations[-1]
       ELSE uniqueDurations[IndexOfHighest(durationsCount)]

---------------------------------------------------------------------------
(* Chord Reducer *)

\* `if (event[0] === 0) continue`: a note of nonzero duration closes the chord
ClosesChord(event) == ~IsZero(event[1])

\* a mutant of chordPitches: a note of duration 0 is not added to the chord
chordPitches_skipZero(newChord, event) ==
    IF IsZero(event[1]) THEN newChord ELSE Append(newChord, event[2])

\* newChord[0].push(event[1]): the note joins the chord before its duration is looked at
chordPitches(newChord, event) == Append(newChord, event[2])

RECURSIVE reduceLoop(_, _, _)
\* `for (const event of score)` on newScore and the pitches of newChord
reduceLoop(score, newScore, newChord) ==
    IF score = <<>> THEN newScore
    ELSE LET event == Head(score)
             pitches == chordPitches(newChord, event)
         IN IF ClosesChord(event)
            THEN reduceLoop(Tail(score), Append(newScore, <<pitches, event[1]>>), <<>>)
            ELSE reduceLoop(Tail(score), newScore, pitches)

\* PianoConverter.reduceScoreToChords: chords [pitches, duration]
reduceScoreToChords(score) == reduceLoop(score, <<>>, <<>>)

---------------------------------------------------------------------------
(* Strings *)

RECURSIVE IntToStr(_)
\* the decimal digits of an integer >= 0
IntToStr(n) ==
    IF n < 10 THEN <<Digits[n + 1]>> ELSE IntToStr(n \div 10) \o <<Digits[(n % 10) + 1]>>

RECURSIVE PadZeros(_, _)
\* the digits of n, padded with zeros on the left to `width` characters
PadZeros(str, width) == IF Len(str) >= width THEN str ELSE PadZeros(<<"0">> \o str, width)

\* replace(/c+$/, ''): every trailing occurrence of the character c is removed
StripTrailing(str, c) ==
    LET kept == {i \in 1..Len(str) : str[i] # c}
    IN IF kept = {} THEN <<>>
       ELSE SubSeq(str, 1, CHOOSE i \in kept : \A j \in kept : j <= i)

\* the characters that end a line, which the `.` of a regular expression does
\* not match
LineTerminators == {"\n", "\r", "U+2028", "U+2029"}

\* replace(/\.$/, ''): one trailing point is removed
StripPoint(str) ==
    IF str # <<>> /\ str[Len(str)] = "."
    THEN SubSeq(str, 1, Len(str) - 1)
    ELSE str

\* rstrip(needle, haystack): replace(new RegExp(needle + "$"), '') removes one
\* trailing match of the needle; the needle is one character, which matches
\* itself (the program's needle is ","), or "." which matches any character
\* that does not end a line
rstrip(needle, haystack) ==
    IF /\ haystack # <<>>
       /\ IF needle = "." THEN haystack[Len(haystack)] \notin LineTerminators
          ELSE haystack[Len(haystack)] = needle
    THEN SubSeq(haystack, 1, Len(haystack) - 1)
    ELSE haystack

\* String.prototype.split(sep) for a one-character separator: the pieces
\* between the separators, one more than there are separators
Split(str, sep) ==
    LET at == {i \in 1..Len(str) : str[i] = sep}
        n == Cardinality(at)
        End(k) == IF k = 0 THEN 0
                  ELSE IF k = n + 1 THEN Len(str) + 1
                  ELSE CHOOSE i \in at : Cardinality({j \in at : j < i}) = k - 1
    IN [k \in 1..(n + 1) |-> SubSeq(str, End(k - 1) + 1, End(k) - 1)]

\* the characters trim() removes: WhiteSpace and LineTerminator of ECMAScript. A
\* character is a one-character string; one that a string of this language
\* cannot hold is the name of its code point.
WhiteSpace ==
    {"\t", "\n", "U+000B", "\f", "\r", " ", "U+00A0", "U+1680",
     "U+2000", "U+2001", "U+2002", "U+2003", "U+2004", "U+2005", "U+2006",
     "U+2007", "U+2008", "U+2009", "U+200A", "U+2028", "U+2029", "U+202F",
     "U+205F", "U+3000", "U+FEFF"}

TrimStart(str) ==
    LET kept == {i \in 1..Len(str) : str[i] \notin WhiteSpace}
    IN IF kept = {} THEN <<>> ELSE SubSeq(str, Min(kept), Len(str))

TrimEnd(str) ==
    LET kept == {i \in 1..Len(str) : str[i] \notin WhiteSpace}
    IN IF kept = {} THEN <<>>
       ELSE SubSeq(str, 1, CHOOSE i \in kept : \A j \in kept : j <= i)

\* String.prototype.trim
Trim(str) == TrimEnd(TrimStart(str))

RECURSIVE BigPow10(_)
BigPow10(k) ==
    IF k = 0 THEN <<1>>
    ELSE LET h == BigPow10(k \div 2)
             sq == BigMul(h, h)
         IN IF k % 2 = 0 THEN sq ELSE BigMulSmall(sq, 10)

RECURSIVE BigToDecimal(_)
\* the decimal digits of a natural number, none for 0
BigToDecimal(a) ==
    LET Four(r) == <<Digits[(r \div 1000) + 1], Digits[((r \div 100) % 10) + 1],
                     Digits[((r \div 10) % 10) + 1], Digits[(r % 10) + 1]>>
        RECURSIVE Unpadded(_)
        Unpadded(str) ==
            IF str # <<>> /\ Head(str) = "0" THEN Unpadded(Tail(str)) ELSE str
    IN IF a = <<>> THEN <<>>
       ELSE LET q == BigDivSmall(a, 10000) IN
            IF q = <<>> THEN Unpadded(Four(BigModSmall(a, 10000)))
            ELSE BigToDecimal(q) \o Four(BigModSmall(a, 10000))

RECURSIVE BigFromDecimal(_)
\* the natural number that decimal digits write, four digits at a time
BigFromDecimal(str) ==
    LET DigitOf(c) == CHOOSE d \in 0..9 : Digits[d + 1] = c
        n == Len(str)
        At(i) == IF i >= 1 THEN DigitOf(str[i]) ELSE 0
        Last4 == 1000 * At(n - 3) + 100 * At(n - 2) + 10 * At(n - 1) + At(n)
    IN IF n <= 4 THEN BigFromInt(Last4)
       ELSE BigAddC(BigMulSmall(BigFromDecimal(SubSeq(str, 1, n - 4)), 10000),
                    <<>>, Last4)

\* The fewest digits that read back as the whole number N of more than 53 bits,
\* whose decimal digits are dec. A decimal reads back as N when it is within
\* half the gap to the neighbouring double (below4 and above4 are four times
\* these halves; the ends count when the significand of N is even,
\* `inclusive`). Of the k-digit decimals next to N, below and above, that read
\* back, the nearer is taken, the even one when they are as near; k is the
\* least for which one does (17 digits always do). The result is the
\* significant digits and the number of digits of the decimal.
ShortestDecimal(N, dec, below4, above4, inclusive) ==
    LET nd == Len(dec)
        Within(d4, half4) ==
            IF inclusive THEN BigCmp(d4, half4) <= 0 ELSE BigCmp(d4, half4) < 0
        Below(q, down4, up4) ==
            /\ Within(down4, below4)
            /\ \/ ~Within(up4, above4)
               \/ BigCmp(down4, up4) < 0
               \/ (BigCmp(down4, up4) = 0 /\ (q = <<>> \/ Head(q) % 2 = 0))
        Reads(down4, up4) == Within(down4, below4) \/ Within(up4, above4)
        Taken(q, down4, up4) ==
            IF Below(q, down4, up4) THEN q ELSE BigAddC(q, <<>>, 1)
        Down4(q, unit) == BigShl(BigSub(N, BigMul(q, unit)), 2)
        ReadsAt(down4, unit) == Reads(down4, BigSub(BigShl(unit, 2), down4))
        TakenAt(q, down4, unit) == Taken(q, down4, BigSub(BigShl(unit, 2), down4))
        ReadsFrom(q, unit) == ReadsAt(Down4(q, unit), unit)
        TakenFrom(q, unit) == TakenAt(q, Down4(q, unit), unit)
        ReadsWith(k) == ReadsFrom(BigFromDecimal(SubSeq(dec, 1, k)), BigPow10(nd - k))
        Fewest(k) == TakenFrom(BigFromDecimal(SubSeq(dec, 1, k)), BigPow10(nd - k))
        Result(str, k) == [digits |-> StripTrailing(str, "0"), n |-> Len(str) + nd - k]
        With(k) == IF k = nd THEN Result(dec, k) ELSE Result(BigToDecimal(Fewest(k)), k)
    IN With(Min({k \in 1..(IF nd < 17 THEN nd ELSE 17) : ReadsWith(k)}))

\* Number::toString(x) for a whole number x, as in "BPM: " + x: the digits of
\* x when it has at most 53 bits, else the fewest digits that read back as x,
\* followed by zeros below 1e21 and in exponent form from 1e21 on
NumberToString(x) ==
    LET Written(digits, n) ==
            IF n <= 21 THEN digits \o [i \in 1..(n - Len(digits)) |-> "0"]
            ELSE <<Head(digits)>>
                 \o (IF Len(digits) > 1 THEN <<".">> \o Tail(digits) ELSE <<>>)
                 \o <<"e", "+">> \o IntToStr(n - 1)
        WrittenShortest(d) == Written(d.digits, d.n)
        Gap4(N, E) ==
            WrittenShortest(ShortestDecimal(N, BigToDecimal(N),
                                            IF x.m = <<1>> THEN BigShl(<<1>>, E)
                                            ELSE BigShl(<<1>>, E + 1),
                                            BigShl(<<1>>, E + 1),
                                            BitLength(x.m) < 53))
        Whole(N) == IF BitLength(N) <= 53 THEN BigToDecimal(N)
                    ELSE Gap4(N, BitLength(N) - 53)
    IN IF IsNaN(x) THEN <<"N", "a", "N">>
       ELSE IF ~IsNumber(x) THEN <<"I", "n", "f", "i", "n", "i", "t", "y">>
       ELSE IF IsZero(x) THEN <<"0">>
       ELSE Whole(BigShl(x.m, x.e))

---------------------------------------------------------------------------
(* Notation Renderer *)

names == << <<"C">>, <<"C", "#">>, <<"D">>, <<"D", "#">>, <<"E">>, <<"F">>,
            <<"F", "#">>, <<"G">>, <<"G", "#">>, <<"A">>, <<"A", "#">>, <<"B">> >>

convertTable == (1 :> 0) @@ (3 :> 1) @@ (6 :> 2) @@ (8 :> 3) @@ (10 :> 4)

inclusionTable == (0 :> 0) @@ (2 :> 1) @@ (5 :> 2) @@ (7 :> 3) @@ (9 :> 4)

correspondenceTable ==
    (0 :> 1) @@ (1 :> 0) @@ (2 :> 3) @@ (3 :> 2) @@ (5 :> 6) @@ (6 :> 5)
    @@ (7 :> 8) @@ (8 :> 7) @@ (9 :> 10) @@ (10 :> 9)

\* a mutant of naturalClears: a natural leaves its letter's accidental flag set
naturalClears_not(accidentals, nameIndex) == accidentals

\* outputAccidentals[inclusionTable[nameIndex]] = false
naturalClears(accidentals, nameIndex) ==
    [accidentals EXCEPT ![inclusionTable[nameIndex]] = FALSE]

\* Math.floor(n / d) of integers n and d, d # 0
FloorOfQuotient(n, d) == IF d > 0 THEN n \div d ELSE (0 - n) \div (0 - d)

\* n % d of integers n and d, d # 0: the remainder has the dividend's sign
Remainder(n, d) ==
    LET r == (IF n < 0 THEN 0 - n ELSE n) % (IF d < 0 THEN 0 - d ELSE d)
    IN IF n < 0 THEN 0 - r ELSE r

\* PianoConverter.notenum2string; accidentals is indexed 0..6, octaves 0..11.
\* `threw` is the TypeError of `names[nameIndex].length` when names has no
\* entry nameIndex. octaveKeys 0 makes the octave Infinity (out of range), or
\* NaN when num is 0 too, and then nameIndex is NaN.
notenum2string(pitch, accidentals, octaves, cfg) ==
    LET thrown == [threw |-> TRUE, string |-> <<>>,
                   accidentals |-> accidentals, octaves |-> octaves]
        silent == [threw |-> FALSE, string |-> <<>>,
                   accidentals |-> accidentals, octaves |-> octaves]
        Named(octave, nameIndex) ==
            LET accidental == Len(names[nameIndex + 1]) = 2
                octaves1 == [octaves EXCEPT ![nameIndex] = octave]
                outputOctaves ==
                    IF nameIndex \in DOMAIN correspondenceTable
                    THEN [octaves1 EXCEPT ![correspondenceTable[nameIndex]] = octave]
                    ELSE octaves1
                addN == /\ ~accidental
                        /\ nameIndex \in DOMAIN inclusionTable
                        /\ accidentals[inclusionTable[nameIndex]]
                outputAccidentals ==
                    IF accidental
                    THEN [accidentals EXCEPT ![convertTable[nameIndex]] = TRUE]
                    ELSE IF nameIndex \in DOMAIN inclusionTable
                         THEN naturalClears(accidentals, nameIndex)
                         ELSE accidentals
            IN [threw |-> FALSE,
                string |-> names[nameIndex + 1]
                           \o (IF addN THEN <<"n">> ELSE <<>>)
                           \o (IF octave # octaves[nameIndex]
                               THEN IntToStr(octave) ELSE <<>>),
                accidentals |-> outputAccidentals,
                octaves |-> outputOctaves]
        InOctave(num, octave) ==
            IF octave < 1 \/ octave > cfg.highestOctave THEN silent
            ELSE LET nameIndex == Remainder(num, cfg.octaveKeys) IN
                 IF nameIndex \in 0..(Len(names) - 1)
                 THEN Named(octave, nameIndex)
                 ELSE thrown
        Transposed(num) ==
            IF cfg.octaveKeys = 0
            THEN IF num = 0 THEN thrown ELSE silent
            ELSE InOctave(num, FloorOfQuotient(num, cfg.octaveKeys))
    IN IF pitch = undefined
       THEN \* num is NaN: names[NaN] is undefined and `.length` throws
            thrown
       ELSE Transposed(pitch + cfg.octaveKeys * cfg.octaveTranspose)

\* mod.toFixed(precision): a precision outside 0..100 throws a RangeError
\* (`threw`) before the number is looked at; NaN, Infinity and a number of 1e21
\* or more are written as by String(mod); otherwise the result is the digits
\* of the integer n for which n / 10^precision is nearest to the double mod
\* (the larger n when two are as near), with a point before the last
\* `precision` of them
toFixed(mod, precision) ==
    IF precision < 0 \/ precision > 100 THEN [threw |-> TRUE, string |-> <<>>]
    ELSE IF ~IsNumber(mod) \/ (mod.e >= 0 /\ BigCmp(BigShl(mod.m, mod.e), BigPow10(21)) >= 0)
    THEN [threw |-> FALSE, string |-> NumberToString(mod)]
    ELSE LET scaled == BigMul(mod.m, BigPow10(precision))
             whole == BigShr(scaled, 0 - mod.e)
             half == BigCmp(BigSub(scaled, BigShl(whole, 0 - mod.e)),
                            BigShl(<<1>>, 0 - mod.e - 1)) >= 0
             n == IF mod.e >= 0 THEN BigShl(scaled, mod.e)
                  ELSE IF half THEN BigAddC(whole, <<>>, 1) ELSE whole
             digits == PadZeros(BigToDecimal(n), precision + 1)
         IN [threw |-> FALSE,
             string |-> SubSeq(digits, 1, Len(digits) - precision)
                        \o (IF precision > 0
                            THEN <<".">> \o SubSeq(digits, Len(digits) - precision + 1,
                                                  Len(digits))
                            ELSE <<>>)]

\* PianoConverter.durToMod; `threw` is the RangeError of toFixed. The parameter
\* is declared `bpm_mod: number = 1.0`: undefined is replaced by 1.
durToMod(dur, bpm_mod, cfg) ==
    LET Stripped(roundedMod) ==
            IF roundedMod.threw THEN roundedMod
            ELSE [threw |-> FALSE,
                  string |-> StripPoint(StripTrailing(roundedMod.string, "0"))]
    IN Stripped(toFixed(Over(IF bpm_mod = undefinedNumber THEN Num(1) ELSE bpm_mod, dur),
                        cfg.floatPrecision))

\* let octaves = Array(12).fill(3); let accidentals = Array(7).fill(false)
InitialOctaves == [i \in 0..11 |-> 3]
InitialAccidentals == [i \in 0..6 |-> FALSE]

RECURSIVE renderChord(_, _, _, _)
\* `for (let noteIndex = 0; ...)` of obtainSheetMusic on the state
\* st = [sheetMusic, accidentals, octaves, threw], from note number noteIndex on
renderChord(st, pitches, noteIndex, cfg) ==
    IF noteIndex > Len(pitches) \/ st.threw THEN st
    ELSE LET data == notenum2string(pitches[noteIndex], st.accidentals, st.octaves, cfg)
             sep == IF noteIndex # Len(pitches) THEN <<"-">> ELSE <<>>
         IN IF data.threw THEN [st EXCEPT !.threw = TRUE]
            ELSE renderChord([sheetMusic |-> st.sheetMusic \o data.string \o sep,
                              accidentals |-> data.accidentals,
                              octaves |-> data.octaves,
                              threw |-> FALSE],
                             pitches, noteIndex + 1, cfg)

\* One iteration of `for (const event of score)` of obtainSheetMusic
obtainSheetMusicEvent(st, event, mostFrequentDur, cfg) ==
    LET WithMod(r, mod) ==
            IF mod.threw THEN [r EXCEPT !.threw = TRUE]
            ELSE [r EXCEPT !.sheetMusic = @ \o <<"/">> \o mod.string \o <<",">>]
        WithDuration(r) ==
            IF r.threw THEN r
            ELSE IF StrictEquals(event[2], mostFrequentDur)
            THEN [r EXCEPT !.sheetMusic = @ \o <<",">>]
            ELSE WithMod(r, durToMod(event[2], mostFrequentDur, cfg))
    IN WithDuration(renderChord(st, event[1], 1, cfg))

RECURSIVE obtainSheetMusicLoop(_, _, _, _)
obtainSheetMusicLoop(st, score, mostFrequentDur, cfg) ==
    IF score = <<>> \/ st.threw THEN st
    ELSE obtainSheetMusicLoop(obtainSheetMusicEvent(st, Head(score), mostFrequentDur, cfg),
                              Tail(score), mostFrequentDur, cfg)

\* PianoConverter.obtainSheetMusic
obtainSheetMusic(score, mostFrequentDur, cfg) ==
    obtainSheetMusicLoop([sheetMusic |-> <<>>, accidentals |-> InitialAccidentals,
                          octaves |-> InitialOctaves, threw |-> FALSE],
                         score, mostFrequentDur, cfg)

---------------------------------------------------------------------------
(* Line Formatter *)

\* a mutant of LinesExhausted: the loop goes on for one more line
LinesExhausted_late(lines, cfg) == lines > cfg.linesLimit

\* if (lineCounter > (this.linesLimit - 1)) break
LinesExhausted(lines, cfg) == lines > cfg.linesLimit - 1

\* One iteration of `for (const note of splitMusic)` of explodeSheetMusic on the
\* state st = [splitList, counter, lineCounter, pc]; pc is "loop", "break" or
\* "threw".
explodeNote(st, note, cfg) ==
    IF LinesExhausted(st.lineCounter, cfg) THEN [st EXCEPT !.pc = "break"]
    ELSE IF st.counter + Len(note) > cfg.lineLengthLim - 2
    THEN IF st.splitList = <<>>
         THEN \* splitList[-1] is undefined: rstrip calls undefined.replace
              [st EXCEPT !.pc = "threw"]
         ELSE LET n == Len(st.splitList) IN
              [splitList |-> Append([st.splitList EXCEPT ![n] =
                                        rstrip(",", @) \o cfg.endOfLineChar],
                                    note \o <<",">>),
               counter |-> Len(note),
               lineCounter |-> st.lineCounter + 1,
               pc |-> "loop"]
    ELSE [splitList |-> Append(st.splitList, note \o <<",">>),
          counter |-> st.counter + Len(note),
          lineCounter |-> st.lineCounter,
          pc |-> "loop"]

RECURSIVE explodeLoop(_, _, _)
explodeLoop(st, splitMusic, cfg) ==
    IF splitMusic = <<>> \/ st.pc # "loop" THEN st
    ELSE explodeLoop(explodeNote(st, Head(splitMusic), cfg), Tail(splitMusic), cfg)

ExplodeStart == [splitList |-> <<>>, counter |-> 0, lineCounter |-> 1, pc |-> "loop"]

\* PianoConverter.explodeSheetMusic
explodeSheetMusic(sheetMusic, cfg) ==
    LET st == explodeLoop(ExplodeStart, Split(sheetMusic, ","), cfg) IN
    [threw |-> st.pc = "threw", splitList |-> st.splitList]

\* "BPM: " + Math.floor(60000 / mostFrequentDur)
bpmHeader(mostFrequentDur) ==
    <<"B", "P", "M", ":", " ">>
    \o NumberToString(MathFloor(Over(Num(60000), mostFrequentDur)))

\* str.substring(0, end)
substring0(str, end) == SubSeq(str, 1, IF Len(str) < end THEN Len(str) ELSE end)

\* PianoConverter.finalizeSheetMusic
finalizeSheetMusic(splitMusic, mostFrequentDur, cfg) ==
    substring0(rstrip(",", rstrip(",",
                   Trim(bpmHeader(mostFrequentDur) \o cfg.endOfLineChar \o Concat(splitMusic)))),
               overallImportLimit(cfg))

---------------------------------------------------------------------------
(* PianoConverter.toPiano *)

\* The stages of toPiano, each kept in the result: `stage` is the last stage
\* that returned, `threw` whether the promise is rejected with a TypeError.

\* const finalSheetMusic = this.finalizeSheetMusic(splitMusic, mostFrequentDur),
\* unless explodeSheetMusic threw
AfterExploding(quantized, sheet, split, cfg) ==
    IF split.threw
    THEN [quantized EXCEPT !.stage = "obtainSheetMusic"]
    ELSE [threw |-> FALSE, stage |-> "finalizeSheetMusic",
          opus |-> quantized.opus, paired |-> quantized.paired,
          score |-> quantized.score, roundedScore |-> quantized.roundedScore,
          mostFrequentDur |-> quantized.mostFrequentDur,
          reducedScore |-> quantized.reducedScore,
          sheetMusic |-> sheet.sheetMusic, splitMusic |-> split.splitList,
          piano |-> finalizeSheetMusic(split.splitList, quantized.mostFrequentDur, cfg)]

\* const splitMusic = this.explodeSheetMusic(sheetMusic), unless obtainSheetMusic
\* threw
AfterRendering(quantized, sheet, cfg) ==
    IF sheet.threw THEN quantized
    ELSE AfterExploding(quantized, sheet, explodeSheetMusic(sheet.sheetMusic, cfg), cfg)

\* const sheetMusic = this.obtainSheetMusic(reducedScore, mostFrequentDur)
AfterReducing(quantized, cfg) ==
    AfterRendering(quantized,
                   obtainSheetMusic(quantized.reducedScore, quantized.mostFrequentDur, cfg),
                   cfg)

\* const mostFrequentDur = this.obtainCommonDuration(roundedScore) and
\* const reducedScore = this.reduceScoreToChords(roundedScore)
AfterRounding(opus, paired, score, roundedScore, cfg) ==
    AfterReducing([threw |-> TRUE, stage |-> "reduceScoreToChords", opus |-> opus,
                   paired |-> paired.tracks, score |-> score,
                   roundedScore |-> roundedScore,
                   mostFrequentDur |-> obtainCommonDuration(roundedScore),
                   reducedScore |-> reduceScoreToChords(roundedScore)],
                  cfg)

\* const roundedScore = this.performRoundation(score)
AfterSorting(opus, paired, score, cfg) ==
    AfterRounding(opus, paired, score, performRoundation(score, cfg), cfg)

\* filterEventsFromScore to convertIntoSecondsPerTicks, on the score that
\* opus2score made of the opus, unless opus2score threw: one outcome for every
\* order the sort may leave the merged track in
AfterPairing(opus, paired, cfg) ==
    IF paired.threw THEN {[threw |-> TRUE, stage |-> "toMs", opus |-> opus]}
    ELSE {AfterSorting(opus, paired, convertIntoSecondsPerTicks(sorted), cfg) :
             sorted \in sortScoreByEventTimes(mergeEvents(
                 filterEmptyTracks(filterEventsFromScore(
                     [tpq |-> paired.tpq, tracks |-> paired.tracks]))))}

\* the opus2score of midi2scoreNoTick
AfterToMs(opus, cfg) == AfterPairing(opus, opus2score(opus), cfg)

\* PianoConverter.toPiano: the statements in their order, each on what the one
\* before returned; a statement that throws ends the conversion. The value is
\* the set of the outcomes the conversion may have: one, unless the order of the
\* sort is the engine's (see SortByBegin).
toPiano(midiData, cfg) == AfterToMs(toMs(midi2opus(midiData.header, midiData.tracks)), cfg)

---------------------------------------------------------------------------
(* TrackManager *)

PERCUSSIVE_PROGRAMS == 112..118
SOUND_EFFECT_PROGRAMS == 119..127
DEFAULT_IGNORED_PROGRAMS == PERCUSSIVE_PROGRAMS \cup SOUND_EFFECT_PROGRAMS

\* new Track() with pendingTrack.track = currentTrack; the fields kept are the
\* ones the selection of tracks reads (title and display strings are left out)
NewTrack(currentTrack) ==
    [track |-> currentTrack, index |-> -1, disabled |-> FALSE, noteCount |-> 0,
     instruments |-> {}, channels |-> {}, percussionChannels |-> {},
     hasNotes |-> FALSE]

\* the `switch (event.type)` of process()
processEvent(pendingTrack, event) ==
    IF event.type = "noteOn" THEN
        [pendingTrack EXCEPT
            !.hasNotes = TRUE,
            !.channels = @ \cup {event.channel},
            !.percussionChannels = IF event.channel = 9 THEN @ \cup {event.channel} ELSE @,
            !.noteCount = @ + 1]
    ELSE IF event.type = "programChange" THEN
        [pendingTrack EXCEPT
            !.hasNotes = TRUE,
            !.instruments = @ \cup {event.programNumber},
            !.channels = @ \cup {event.channel},
            !.percussionChannels =
                IF event.programNumber \in DEFAULT_IGNORED_PROGRAMS \/ event.channel = 9
                THEN @ \cup {event.channel} ELSE @]
    ELSE pendingTrack

RECURSIVE processEvents(_, _)
processEvents(pendingTrack, events) ==
    IF events = <<>> THEN pendingTrack
    ELSE processEvents(processEvent(pendingTrack, Head(events)), Tail(events))

\* the body of `for (const track of this.midiObject.tracks)` of process(): the
\* Track of MIDI track number currentTrack, given the Tracks identified so far
processTrack(identified, events, currentTrack) ==
    LET read == processEvents(NewTrack(currentTrack), events)
        named == IF read.hasNotes /\ read.instruments = {}
                 THEN [read EXCEPT !.instruments = {0}] ELSE read
        pendingTrack == [named EXCEPT !.index = Len(identified),
                                      !.disabled = named.percussionChannels # {}]
    IN IF pendingTrack.instruments # {}
       THEN Append(identified, pendingTrack)
       ELSE identified

RECURSIVE processTracks(_, _, _)
processTracks(identified, tracks, currentTrack) ==
    IF tracks = <<>> THEN identified
    ELSE processTracks(processTrack(identified, Head(tracks), currentTrack),
                       Tail(tracks), currentTrack + 1)

\* the Track list process() builds
process(tracks) == processTracks(<<>>, tracks, 0)

\* An object, as far as sharing goes: `source` tells whether it is (a part of)
\* the object this.midiObject refers to, so that a write to it changes the
\* parsed MIDI.
SourceObject == [source |-> TRUE]

\* a mutant of structuredClone: the object itself is returned
structuredClone_same(object) == object

\* structuredClone(object): a new object that shares nothing with its argument
structuredClone(object) == [object EXCEPT !.source = FALSE]

\* {...event}: a new object with the fields of the event
SpreadCopy(object) == [object EXCEPT !.source = FALSE]

\* var tempMidiObject = structuredClone(this.midiObject);
\* tempMidiObject.tracks.length = 0: the tracks of this.midiObject after it
tracksAfterModifyMidi(tracks) ==
    LET tempMidiObject == structuredClone(SourceObject) IN
    IF tempMidiObject.source THEN <<>> ELSE tracks

\* The object toMs writes `newEvent.deltaTime` to, for an event of the MIDI
\* handed to PianoConverter.toPiano: midi2opus clones the tracks and spreads
\* each event into opusEvent, toMs clones each oldEvent into newEvent.
toMsNewEvent == structuredClone(SpreadCopy(structuredClone(SourceObject)))

RECURSIVE eventsAfterToMs(_, _, _)
\* the events of one handed track after toMs has run over it from the state r
eventsAfterToMs(r, oldTrack, tpq) ==
    IF oldTrack = <<>> THEN <<>>
    ELSE LET next == toMsEvent(r, Head(oldTrack), tpq)
             written == [Head(oldTrack) EXCEPT
                            !.deltaTime = rebasedDeltaTime(next.soFar, r.previous)]
         IN <<IF toMsNewEvent.source THEN written ELSE Head(oldTrack)>>
            \o eventsAfterToMs(next, Tail(oldTrack), tpq)

RECURSIVE tracksAfterToMs(_, _, _)
\* the handed tracks after toMs, the rate carried from track to track
tracksAfterToMs(rate, oldTracks, tpq) ==
    IF oldTracks = <<>> THEN <<>>
    ELSE <<eventsAfterToMs([rate |-> rate, soFar |-> Zero, previous |-> Zero,
                            newTrack |-> <<SetTempo(0, 1000000)>>], Head(oldTracks), tpq)>>
         \o tracksAfterToMs(toMsTrack(rate, Head(oldTracks), tpq).rate, Tail(oldTracks), tpq)

\* The tracks of this.midiObject after PianoConverter.toPiano has converted
\* the tracks `numbers` (0-based) of it: toMs is the one stage that assigns to
\* a field of an event it did not create itself.
tracksAfterToPiano(header, tracks, numbers) ==
    LET after == tracksAfterToMs(initialMillisecPerOldTick(headerTpq(header)),
                                 [i \in 1..Len(numbers) |-> tracks[numbers[i] + 1]],
                                 headerTpq(header))
    IN [n \in 1..Len(tracks) |->
           IF \E i \in 1..Len(numbers) : numbers[i] = n - 1
           THEN after[CHOOSE i \in 1..Len(numbers) : numbers[i] = n - 1]
           ELSE tracks[n]]

\* new Set(this.identifiedTracks.filter((x) => x.disabled).map((x) => x.index))
disabledTrackIndexes(identified) ==
    {identified[i].index : i \in {j \in 1..Len(identified) : identified[j].disabled}}

\* disabledTrackIndexes.has(idx)
Excluded(identified, idx) == idx \in disabledTrackIndexes(identified)

\* TrackManager.modifyMidi: the tracks pushed to tempMidiObject.tracks, as the
\* numbers (0-based) of the tracks of midiObject they are references to
modifyMidi(tracks, identified) ==
    SelectSeq([i \in 1..Len(tracks) |-> i - 1], LAMBDA idx : ~Excluded(identified, idx))

\* find((x) => x.track == track) and an assignment to its `disabled`
SetDisabled(identified, trackNumbers, to) ==
    LET first(n) == CHOOSE i \in 1..Len(identified) :
                        /\ identified[i].track = n
                        /\ \A j \in 1..(i - 1) : identified[j].track # n
        found == {i \in 1..Len(identified) :
                     identified[i].track \in trackNumbers /\ first(identified[i].track) = i}
    IN [i \in 1..Len(identified) |->
           IF i \in found
           THEN [identified[i] EXCEPT !.disabled = IF to = "toggle" THEN ~@ ELSE to = "disable"]
           ELSE identified[i]]

---------------------------------------------------------------------------
(* The Note Pairer as a state machine: the opus is read one event at a time *)

PairChannels == {0, 1}
PairPitches == {60}
\* the tick deltas of the note-ons; every other event comes one tick after the last
PairDeltas == {0, 1}

NoteOnInputs ==
    {NoteOn(d, c, p, 64) : d \in PairDeltas, c \in PairChannels, p \in PairPitches}
NoteOffInputs ==
    {NoteOff(1, c, p) : c \in PairChannels, p \in PairPitches}
    \cup {NoteOn(1, c, p, 0) : c \in PairChannels, p \in PairPitches}
OtherInputs == {Controller(1)}

EventsRead == SumLens(opusTracks) + Len(opusTrack)

PairerState ==
    [ticksSoFar |-> ticksSoFar, scoreTrack |-> scoreTrack,
     pending |-> channelPitchToNoteOnEvents, threw |-> FALSE]

PairerIdle ==
    /\ numTracks = 0
    /\ opusTracks = <<>>
    /\ opusTrack = <<>>
    /\ ticksSoFar = 0
    /\ scoreTrack = <<>>
    /\ channelPitchToNoteOnEvents = <<>>
    /\ scoreTracks = <<>>
    /\ pairerPc = "idle"

PairerInit ==
    /\ numTracks \in 0..MaxOpusTracks
    /\ opusTracks = <<>>
    /\ opusTrack = <<>>
    /\ ticksSoFar = 0
    /\ scoreTrack = <<>>
    /\ channelPitchToNoteOnEvents = <<>>
    /\ scoreTracks = <<>>
    /\ pairerPc = "start"

\* if (opus.tracks.length < 2) return the empty score
PairerStart ==
    /\ pairerPc = "start"
    /\ pairerPc' = IF numTracks < 2 THEN "done" ELSE "loop"
    /\ UNCHANGED <<numTracks, opusTracks, opusTrack, ticksSoFar, scoreTrack,
                   channelPitchToNoteOnEvents, scoreTracks>>
    /\ UNCHANGED notPairerVars

\* the loop body's branch for a note-off or a note-on of velocity 0
PairerNoteOff ==
    /\ pairerPc = "loop"
    /\ EventsRead < MaxEvents
    /\ \E ev \in NoteOffInputs :
        LET q == opus2scoreEvent(PairerState, ev) IN
        /\ opusTrack' = Append(opusTrack, ev)
        /\ ticksSoFar' = q.ticksSoFar
        /\ scoreTrack' = q.scoreTrack
        /\ channelPitchToNoteOnEvents' = q.pending
        /\ pairerPc' = IF q.threw THEN "threw" ELSE "loop"
    /\ UNCHANGED <<numTracks, opusTracks, scoreTracks>>
    /\ UNCHANGED notPairerVars

\* the loop body's branch for a note-on
PairerNoteOn ==
    /\ pairerPc = "loop"
    /\ EventsRead < MaxEvents
    /\ \E ev \in NoteOnInputs :
        LET q == opus2scoreEvent(PairerState, ev) IN
        /\ opusTrack' = Append(opusTrack, ev)
        /\ ticksSoFar' = q.ticksSoFar
        /\ scoreTrack' = q.scoreTrack
        /\ channelPitchToNoteOnEvents' = q.pending
        /\ pairerPc' = IF q.threw THEN "threw" ELSE "loop"
    /\ UNCHANGED <<numTracks, opusTracks, scoreTracks>>
    /\ UNCHANGED notPairerVars

\* the loop body's branch for every other event
PairerOther ==
    /\ pairerPc = "loop"
    /\ EventsRead < MaxEvents
    /\ \E ev \in OtherInputs :
        LET q == opus2scoreEvent(PairerState, ev) IN
        /\ opusTrack' = Append(opusTrack, ev)
        /\ ticksSoFar' = q.ticksSoFar
        /\ scoreTrack' = q.scoreTrack
        /\ channelPitchToNoteOnEvents' = q.pending
        /\ pairerPc' = IF q.threw THEN "threw" ELSE "loop"
    /\ UNCHANGED <<numTracks, opusTracks, scoreTracks>>
    /\ UNCHANGED notPairerVars

\* the end of a track: unterminated notes, score.tracks.push(scoreTrack)
PairerEndTrack ==
    /\ pairerPc = "loop"
    /\ opusTracks' = Append(opusTracks, opusTrack)
    /\ scoreTracks' = Append(scoreTracks, FinishTrack(PairerState))
    /\ opusTrack' = <<>>
    /\ ticksSoFar' = 0
    /\ scoreTrack' = <<>>
    /\ channelPitchToNoteOnEvents' = <<>>
    /\ pairerPc' = IF Len(opusTracks) + 1 = numTracks THEN "done" ELSE "loop"
    /\ UNCHANGED numTracks
    /\ UNCHANGED notPairerVars

PairerNext ==
    \/ PairerStart
    \/ PairerNoteOff
    \/ PairerNoteOn
    \/ PairerOther
    \/ PairerEndTrack

---------------------------------------------------------------------------
(* Conversions of one parsed MIDI by one converter whose options are set *)

\* the events of the parsed MIDI: two note-ons of different pitches, 10 ticks
\* apart when the second follows the first, a note-off and a tempo change
PipeEvents ==
    {NoteOn(0, 0, 60, 64), NoteOn(10, 0, 61, 64), NoteOff(480, 0, 60), SetTempo(0, 500000)}

SeqsUpTo(S, n) == UNION {[1..k -> S] : k \in 0..n}

RECURSIVE TrackLists(_, _)
\* the lists of n tracks that hold at most `budget` events together
TrackLists(n, budget) ==
    IF n = 0 THEN {<<>>}
    ELSE UNION {{<<t>> \o rest : rest \in TrackLists(n - 1, budget - Len(t))} :
                t \in SeqsUpTo(PipeEvents, budget)}

MidiInputs ==
    {[header |-> [ticksPerBeat |-> 480], tracks |-> ts] :
        ts \in UNION {TrackLists(n, MaxMidiEvents) : n \in 0..MaxMidiTracks}}

\* tickLag 0.1 and the default 0.5: quanta of 10 ms and 50 ms
TickLags == {Tenths(1), Tenths(5)}

\* the default line length and one that a chord of two pitches does not fit
PipeLineLengthLims == {DefaultConfig.lineLengthLim, 6}

\* the default number of lines and one line
PipeLinesLimits == {DefaultConfig.linesLimit, 1}

\* the options of the converter as they are now
PipelineConfig ==
    [DefaultConfig EXCEPT !.tickLag = tickLag, !.lineLengthLim = lineLengthLim,
                          !.linesLimit = linesLimit]

\* the line limits as the constructor leaves them
DefaultLimits ==
    /\ lineLengthLim = DefaultConfig.lineLengthLim
    /\ linesLimit = DefaultConfig.linesLimit

PipelineIdle ==
    /\ midi = [header |-> [ticksPerBeat |-> 480], tracks |-> <<>>]
    /\ tickLag = DefaultConfig.tickLag
    /\ conversions = <<>>

\* new PianoConverter({}) and a parsed MIDI
PipelineInit ==
    /\ midi \in MidiInputs
    /\ tickLag = DefaultConfig.tickLag
    /\ DefaultLimits
    /\ conversions = <<>>

\* PianoConverter.setTickLag
SetTickLag ==
    /\ \E l \in TickLags \ {tickLag} : tickLag' = l
    /\ UNCHANGED <<midi, conversions, limitVars>>
    /\ UNCHANGED notPipelineVars

\* PianoConverter.setLineLengthLim; the conversions made with the former limit
\* are forgotten
SetLineLengthLim ==
    /\ \E l \in PipeLineLengthLims \ {lineLengthLim} : lineLengthLim' = l
    /\ conversions' = <<>>
    /\ UNCHANGED <<midi, tickLag, linesLimit>>
    /\ UNCHANGED notPipelineVars

\* PianoConverter.setLinesLimit; the conversions made with the former limit are
\* forgotten
SetLinesLimit ==
    /\ \E l \in PipeLinesLimits \ {linesLimit} : linesLimit' = l
    /\ conversions' = <<>>
    /\ UNCHANGED <<midi, tickLag, lineLengthLim>>
    /\ UNCHANGED notPipelineVars

\* PianoConverter.toPiano, with the options as they are now
ToPiano ==
    /\ tickLag \notin DOMAIN conversions
    /\ \E outcome \in toPiano(midi, PipelineConfig) :
           conversions' = (tickLag :> outcome) @@ conversions
    /\ UNCHANGED <<midi, tickLag, limitVars>>
    /\ UNCHANGED notPipelineVars

PipelineNext ==
    \/ SetTickLag
    \/ SetLineLengthLim
    \/ SetLinesLimit
    \/ ToPiano

---------------------------------------------------------------------------
(* The TrackManager as a state machine: one action per public method *)

Conductor == <<SetTempo(0, 500000)>>
Melody == <<NoteOn(0, 0, 60, 64), NoteOff(480, 0, 60)>>
Drums == <<NoteOn(0, 9, 36, 64), NoteOff(480, 9, 36)>>
Woodblock == <<ProgramChange(0, 1, 115), NoteOn(0, 1, 60, 64), NoteOff(480, 1, 60)>>

ManagerTracks == {Conductor, Melody, Drums, Woodblock}

ManagerMidis == UNION {[1..n -> ManagerTracks] : n \in 1..MaxManagerTracks}

\* the arguments of disableTrack, enableTrack and toggleTrack: the numbers of
\* the tracks a file may have
TrackNumbers == 0..(MaxManagerTracks - 1)

\* the header parseMidi returns for the files given to setMidi
ManagerHeader == [ticksPerBeat |-> 480]

NotCalled == [called |-> FALSE]

\* the state after the constructor
ManagerInit ==
    /\ midiBuffer = <<>>
    /\ midiObject = <<>>
    /\ identifiedTracks = <<>>
    /\ modifiedMidiObject = <<>>
    /\ handed = NotCalled

\* setMidi(midi): resetMidi(), then process(), which calls modifyMidi() when a
\* track was disabled for its percussion
SetMidi ==
    \E tracks \in ManagerMidis :
        LET identified == process(tracks)
            mustModify == \E i \in 1..Len(identified) :
                              identified[i].percussionChannels # {}
        IN
        /\ midiBuffer' = <<tracks>>
        /\ midiObject' = IF mustModify THEN <<tracksAfterModifyMidi(tracks)>> ELSE <<tracks>>
        /\ identifiedTracks' = identified
        /\ modifiedMidiObject' =
               IF mustModify
               THEN <<modifyMidi(tracksAfterModifyMidi(tracks), identified)>>
               ELSE <<>>
        /\ handed' = NotCalled
        /\ UNCHANGED notManagerVars

\* this.modifyMidi() at the end of every enable/disable method: it throws when
\* no MIDI is loaded and leaves modifiedMidiObject as it was
Remodified(identified) ==
    IF midiObject = <<>> THEN modifiedMidiObject
    ELSE <<modifyMidi(tracksAfterModifyMidi(midiObject[1]), identified)>>

\* this.midiObject after that call of modifyMidi()
SourceRemodified ==
    IF midiObject = <<>> THEN midiObject
    ELSE <<tracksAfterModifyMidi(midiObject[1])>>

ToggleTracks ==
    \E tracks \in SUBSET TrackNumbers :
        LET identified == SetDisabled(identifiedTracks, tracks, "toggle") IN
        /\ identifiedTracks' = identified
        /\ modifiedMidiObject' = Remodified(identified)
        /\ handed' = NotCalled
        /\ midiObject' = SourceRemodified
        /\ UNCHANGED midiBuffer
        /\ UNCHANGED notManagerVars

ToggleTrack ==
    \E track \in TrackNumbers :
        LET identified == SetDisabled(identifiedTracks, {track}, "toggle") IN
        /\ identifiedTracks' = identified
        /\ modifiedMidiObject' = Remodified(identified)
        /\ handed' = NotCalled
        /\ midiObject' = SourceRemodified
        /\ UNCHANGED midiBuffer
        /\ UNCHANGED notManagerVars

DisableTrack ==
    \E track \in TrackNumbers :
        LET identified == SetDisabled(identifiedTracks, {track}, "disable") IN
        /\ identifiedTracks' = identified
        /\ modifiedMidiObject' = Remodified(identified)
        /\ handed' = NotCalled
        /\ midiObject' = SourceRemodified
        /\ UNCHANGED midiBuffer
        /\ UNCHANGED notManagerVars

EnableTrack ==
    \E track \in TrackNumbers :
        LET identified == SetDisabled(identifiedTracks, {track}, "enable") IN
        /\ identifiedTracks' = identified
        /\ modifiedMidiObject' = Remodified(identified)
        /\ handed' = NotCalled
        /\ midiObject' = SourceRemodified
        /\ UNCHANGED midiBuffer
        /\ UNCHANGED notManagerVars

DisableAllTracks ==
    LET identified == [i \in 1..Len(identifiedTracks) |->
                          [identifiedTracks[i] EXCEPT !.disabled = TRUE]] IN
    /\ identifiedTracks' = identified
    /\ modifiedMidiObject' = Remodified(identified)
    /\ handed' = NotCalled
    /\ midiObject' = SourceRemodified
    /\ UNCHANGED midiBuffer
    /\ UNCHANGED notManagerVars

EnableAllTracks ==
    LET identified == [i \in 1..Len(identifiedTracks) |->
                          [identifiedTracks[i] EXCEPT !.disabled = FALSE]] IN
    /\ identifiedTracks' = identified
    /\ modifiedMidiObject' = Remodified(identified)
    /\ handed' = NotCalled
    /\ midiObject' = SourceRemodified
    /\ UNCHANGED midiBuffer
    /\ UNCHANGED notManagerVars

\* var targetedMidi = this.modifiedMidiObject ? this.modifiedMidiObject
\* : this.midiObject, as the numbers of the tracks of midiObject it holds
targetedMidi ==
    IF modifiedMidiObject # <<>>
    THEN modifiedMidiObject[1]
    ELSE [i \in 1..Len(midiObject[1]) |-> i - 1]

\* TrackManager.toPiano: `handed` is what PianoConverter.toPiano is called
\* with (the tracks' numbers, and the events it reads from them); midiObject
\* is left as the converter leaves the tracks it was given
ManagerToPiano ==
    LET throws == \/ midiObject = <<>>
                  \/ Cardinality(disabledTrackIndexes(identifiedTracks))
                         >= Len(identifiedTracks)
    IN
    /\ handed' =
           IF throws
           THEN [called |-> TRUE, threw |-> TRUE]
           ELSE [called |-> TRUE, threw |-> FALSE,
                 tracks |-> targetedMidi,
                 events |-> [i \in 1..Len(targetedMidi) |->
                                midiObject[1][targetedMidi[i] + 1]]]
    /\ midiObject' =
           IF throws THEN midiObject
           ELSE <<tracksAfterToPiano(ManagerHeader, midiObject[1], targetedMidi)>>
    /\ UNCHANGED <<midiBuffer, identifiedTracks, modifiedMidiObject>>
    /\ UNCHANGED notManagerVars

ManagerNext ==
    \/ SetMidi
    \/ ToggleTracks
    \/ ToggleTrack
    \/ DisableTrack
    \/ EnableTrack
    \/ DisableAllTracks
    \/ EnableAllTracks
    \/ ManagerToPiano

---------------------------------------------------------------------------
(* The Notation Renderer as a state machine: obtainSheetMusic's note loop *)

\* C, C#, D, D#, E, F, F# of octave 5, C of octave 4, C# of octave 6 and a pitch
\* below the lowest octave
RenderPitches == {0, 48, 60, 61, 62, 63, 64, 65, 66, 73}

OctaveTransposes == {0 - 2, 0}

RendererConfig == [DefaultConfig EXCEPT !.octaveTranspose = octaveTranspose]

RendererIdle ==
    /\ octaveTranspose = DefaultConfig.octaveTranspose
    /\ rendered = <<>>
    /\ curAccidentals = InitialAccidentals
    /\ curOctaves = InitialOctaves
    /\ strings = <<>>

RendererInit ==
    /\ octaveTranspose \in OctaveTransposes
    /\ rendered = <<>>
    /\ curAccidentals = InitialAccidentals
    /\ curOctaves = InitialOctaves
    /\ strings = <<>>

\* const data = this.notenum2string(event[0][noteIndex], accidentals, octaves)
RenderNote ==
    /\ Len(rendered) < MaxNotes
    /\ \E pitch \in RenderPitches :
        LET data == notenum2string(pitch, curAccidentals, curOctaves, RendererConfig) IN
        /\ rendered' = Append(rendered, pitch)
        /\ strings' = Append(strings, data.string)
        /\ curAccidentals' = data.accidentals
        /\ curOctaves' = data.octaves
    /\ UNCHANGED octaveTranspose
    /\ UNCHANGED notRendererVars

RendererNext == RenderNote

---------------------------------------------------------------------------
(* The Line Formatter as a state machine: explodeSheetMusic's token loop *)

\* what stands between two terminators of a sheet: nothing, or a chord
FormatTokens ==
    { <<>>, <<"C">>, <<"C", "#", "5">>, <<"D", "/", "0", ".", "5">> }

\* sheetMusic.split(','), for every sheet of at most MaxTokens tokens
SplitSheets == UNION {[1..n -> FormatTokens] : n \in 1..MaxTokens}

LineLengthLims == {2, 6, 8}
LinesLimits == {1, 2, 4}

FormatterConfig ==
    [DefaultConfig EXCEPT !.lineLengthLim = lineLengthLim, !.linesLimit = linesLimit]

FormatterIdle ==
    /\ sheetTokens = <<>>
    /\ tokensRead = <<>>
    /\ splitList = <<>>
    /\ counter = 0
    /\ lineCounter = 1
    /\ explodePc = "idle"

FormatterInit ==
    /\ lineLengthLim \in LineLengthLims
    /\ linesLimit \in LinesLimits
    /\ sheetTokens \in SplitSheets
    /\ tokensRead = <<>>
    /\ splitList = ExplodeStart.splitList
    /\ counter = ExplodeStart.counter
    /\ lineCounter = ExplodeStart.lineCounter
    /\ explodePc = "loop"

FormatterState ==
    [splitList |-> splitList, counter |-> counter, lineCounter |-> lineCounter,
     pc |-> "loop"]

\* one iteration of `for (const note of splitMusic)`; the loop is done after
\* the last token
ExplodeNote ==
    /\ explodePc = "loop"
    /\ Len(tokensRead) < Len(sheetTokens)
    /\ LET note == sheetTokens[Len(tokensRead) + 1]
           Next(st) ==
               /\ tokensRead' = Append(tokensRead, note)
               /\ splitList' = st.splitList
               /\ counter' = st.counter
               /\ lineCounter' = st.lineCounter
               /\ explodePc' = IF st.pc = "loop" /\ Len(tokensRead) + 1 = Len(sheetTokens)
                               THEN "done" ELSE st.pc
       IN Next(explodeNote(FormatterState, note, FormatterConfig))
    /\ UNCHANGED <<sheetTokens, limitVars>>
    /\ UNCHANGED notFormatterVars

FormatterNext == ExplodeNote

---------------------------------------------------------------------------
(* The dominant duration of a quantized sequence *)

QuantDurations == {Num(0), Num(50), Num(100), Num(150)}

QuantizedScores == UNION {[1..n -> {<<d, 60>> : d \in QuantDurations}] : n \in 0..MaxScoreLen}

QuantizerIdle ==
    /\ quantScore = <<>>
    /\ commonDur = undefinedNumber
    /\ quantizerPc = "idle"

QuantizerInit ==
    /\ quantScore \in QuantizedScores
    /\ commonDur = undefinedNumber
    /\ quantizerPc = "start"

\* const mostFrequentDur = this.obtainCommonDuration(roundedScore)
ObtainCommonDuration ==
    /\ quantizerPc = "start"
    /\ commonDur' = obtainCommonDuration(quantScore)
    /\ quantizerPc' = "done"
    /\ UNCHANGED quantScore
    /\ UNCHANGED notQuantizerVars

QuantizerNext == ObtainCommonDuration

---------------------------------------------------------------------------
(* The specifications *)

InitPairer ==
    /\ PairerInit /\ PipelineIdle /\ ManagerInit /\ RendererIdle /\ FormatterIdle
    /\ QuantizerIdle /\ DefaultLimits
SpecPairer == InitPairer /\ [][PairerNext]_vars

InitPipeline ==
    PipelineInit /\ PairerIdle /\ ManagerInit /\ RendererIdle /\ FormatterIdle /\ QuantizerIdle
SpecPipeline == InitPipeline /\ [][PipelineNext]_vars

InitManager ==
    /\ ManagerInit /\ PairerIdle /\ PipelineIdle /\ RendererIdle /\ FormatterIdle
    /\ QuantizerIdle /\ DefaultLimits
SpecManager == InitManager /\ [][ManagerNext]_vars

InitRenderer ==
    /\ RendererInit /\ PairerIdle /\ PipelineIdle /\ ManagerInit /\ FormatterIdle
    /\ QuantizerIdle /\ DefaultLimits
SpecRenderer == InitRenderer /\ [][RendererNext]_vars

InitFormatter ==
    FormatterInit /\ PairerIdle /\ PipelineIdle /\ ManagerInit /\ RendererIdle /\ QuantizerIdle
SpecFormatter == InitFormatter /\ [][FormatterNext]_vars

InitQuantizer ==
    /\ QuantizerInit /\ PairerIdle /\ PipelineIdle /\ ManagerInit /\ RendererIdle
    /\ FormatterIdle /\ DefaultLimits
SpecQuantizer == InitQuantizer /\ [][QuantizerNext]_vars

---------------------------------------------------------------------------
(* Claims about the Note Pairer, checked under SpecPairer *)

\* the tick position of the i-th event of an opus track
RECURSIVE TickAt(_, _)
TickAt(track, i) == IF i = 0 THEN 0 ELSE TickAt(track, i - 1) + track[i].deltaTime

\* the indices of the note-ons with velocity > 0 of a key in an opus track
NoteOnIdx(track, key) ==
    {i \in 1..Len(track) : /\ track[i].type = "noteOn"
                           /\ track[i].velocity > 0
                           /\ PairKey(track[i]) = key}

\* the number of note-ons with velocity > 0 in an opus track
NoteOnCount(track) ==
    Cardinality({i \in 1..Len(track) : track[i].type = "noteOn" /\ track[i].velocity > 0})

\* the indices of the `note` events of a key in a score track
NoteIdx(track, key) ==
    {i \in 1..Len(track) : track[i].type = "note" /\ PairKey(track[i]) = key}

\* the number of `note` events in a score track
NoteCount(track) ==
    Cardinality({i \in 1..Len(track) : track[i].type = "note"})

\* the number of events of a key in an opus track that act as a note-off
NoteOffCount(track, key) ==
    Cardinality({i \in 1..Len(track) : /\ track[i].type \in {"noteOn", "noteOff"}
                                       /\ IsNoteOffEvent(track[i])
                                       /\ PairKey(track[i]) = key})

\* this step reads one more event of the current track
PairerReads == pairerPc = "loop" /\ Len(opusTrack') = Len(opusTrack) + 1

\* this step reads a note-off (or a note-on with velocity 0)
PairerReadsNoteOff ==
    /\ PairerReads
    /\ opusTrack'[Len(opusTrack')].type \in {"noteOn", "noteOff"}
    /\ IsNoteOffEvent(opusTrack'[Len(opusTrack')])

\* the key has a note-on that no note-off has closed yet
HasPending(pending, key) == key \in DOMAIN pending /\ pending[key] # <<>>

\* the `note` event of the k-th note-on of a key, closed at tick t
ClosedNote(track, key, k, t) ==
    LET i == Ascending(NoteOnIdx(track, key))[k] IN
    [type |-> "note", begin |-> TickAt(track, i), deltaTime |-> t - TickAt(track, i),
     channel |-> track[i].channel, noteNumber |-> track[i].noteNumber,
     velocity |-> track[i].velocity]

\* C2: a note-off (or a note-on with velocity 0) for a key that has no pending
\* note is ignored: the step emits no event and raises no error, both when the
\* key never had a note-on and when all its note-ons were closed before.
C2_UnmatchedNoteOffIgnored ==
    [][(/\ PairerReadsNoteOff
        /\ ~HasPending(channelPitchToNoteOnEvents, PairKey(opusTrack'[Len(opusTrack')])))
       => (scoreTrack' = scoreTrack /\ pairerPc' # "threw")]_vars

\* C3: for an input with at least two tracks the Note Pairer ends with one score
\* track per input track, and the number of `note` events in each equals the
\* number of note-ons with velocity > 0 of that input track.
C3_NoteCountEqualsNoteOns ==
    (numTracks >= 2 /\ pairerPc \in {"done", "threw"})
    => /\ pairerPc = "done"
       /\ Len(scoreTracks) = numTracks
       /\ \A i \in 1..numTracks : NoteCount(scoreTracks[i]) = NoteOnCount(opusTracks[i])

\* C4 as stated: the k-th note-off of a key closes the k-th note-on of that key
\* (when that note-on was read before it); the emitted note starts at that
\* note-on's onset and lasts until the note-off's position.
C4_KthNoteOffClosesKthNoteOn ==
    [][PairerReadsNoteOff
       => LET ev == opusTrack'[Len(opusTrack')]
              key == PairKey(ev)
              k == NoteOffCount(opusTrack', key)
          IN k <= Cardinality(NoteOnIdx(opusTrack, key))
             => scoreTrack' = Append(scoreTrack,
                                     ClosedNote(opusTrack, key, k, ticksSoFar'))]_vars

\* C4 amended: a note-off that finds a pending note of its key closes the oldest
\* one: the k-th note closed for a key is the key's k-th note-on, starting at that
\* note-on's onset and lasting until the closing note-off's position.
C4_FifoPairing ==
    [][(/\ PairerReadsNoteOff
        /\ HasPending(channelPitchToNoteOnEvents, PairKey(opusTrack'[Len(opusTrack')])))
       => LET ev == opusTrack'[Len(opusTrack')]
              key == PairKey(ev)
              k == Cardinality(NoteIdx(scoreTrack, key)) + 1
          IN /\ k <= Cardinality(NoteOnIdx(opusTrack, key))
             /\ ticksSoFar' = TickAt(opusTrack', Len(opusTrack'))
             /\ scoreTrack' = Append(scoreTrack,
                                     ClosedNote(opusTrack, key, k, ticksSoFar'))]_vars

\* C4 witness: note-on, note-on, note-off, note-off of one key at four different
\* ticks have been read and both notes are closed, the first note-on first.
C4_Witness ==
    /\ pairerPc = "loop"
    /\ Len(opusTrack) = 4
    /\ \A i \in 1..2 : opusTrack[i].type = "noteOn" /\ opusTrack[i].velocity > 0
    /\ \A i \in 3..4 : opusTrack[i].type = "noteOff"
    /\ \A i \in 1..4 : PairKey(opusTrack[i]) = PairKey(opusTrack[1])
    /\ \A i \in 2..4 : opusTrack[i].deltaTime = 1
    /\ Len(scoreTrack) = 2
    /\ scoreTrack[1].begin = TickAt(opusTrack, 1)
    /\ scoreTrack[1].deltaTime = 2
    /\ scoreTrack[2].begin = TickAt(opusTrack, 2)
    /\ scoreTrack[2].deltaTime = 2

---------------------------------------------------------------------------
(* Claims about whole conversions, checked under SpecPipeline *)

\* the first line of a converted text
HeaderLine(piano) == Split(piano, "\n")[1]

BpmLine(bpm) == <<"B", "P", "M", ":", " ">> \o IntToStr(bpm)

\* the text is one `BPM: <integer>` line and nothing else
OnlyBpmHeader(piano) ==
    /\ Len(piano) > 5
    /\ SubSeq(piano, 1, 5) = <<"B", "P", "M", ":", " ">>
    /\ \A i \in 6..Len(piano) : \E d \in 1..10 : piano[i] = Digits[d]

\* C1: when the MIDI handed to toPiano has zero tracks or exactly one track, the
\* conversion completes without raising an error and returns only the BPM
\* header line, with no chord tokens.
C1_FewTracksGiveHeaderOnly ==
    \A l \in DOMAIN conversions :
        Len(midi.tracks) < 2
        => /\ ~conversions[l].threw
           /\ OnlyBpmHeader(conversions[l].piano)

\* the pitch lists of the chords of a conversion, in order
ChordPitchLists(conversion) ==
    [i \in 1..Len(conversion.reducedScore) |-> conversion.reducedScore[i][1]]

\* C6 as stated: two conversions of the same input that differ only in tickLag
\* group the notes into the same chords: the same pitch lists in the same order.
C6_SameChordsForEveryTickLag ==
    \A l1, l2 \in DOMAIN conversions :
        (~conversions[l1].threw /\ ~conversions[l2].threw)
        => ChordPitchLists(conversions[l1]) = ChordPitchLists(conversions[l2])

\* the conversion got as far as the Chord Reducer
Reduced(conversion) == "reducedScore" \in DOMAIN conversion

\* C6 amended: of two conversions of the same input that differ only in tickLag
\* (quanta of at most 2000 ms) both get as far as the Chord Reducer or neither
\* does, and their chords hold the same pitches in the same order over all the
\* chords; where the chords are cut, as well as their durations and modifiers,
\* may differ, and with them whether the Line Formatter then fails.
C6_SamePitchOrderForEveryTickLag ==
    \A l1, l2 \in DOMAIN conversions :
        /\ Reduced(conversions[l1]) = Reduced(conversions[l2])
        /\ Reduced(conversions[l1])
           => Concat(ChordPitchLists(conversions[l1]))
              = Concat(ChordPitchLists(conversions[l2]))

\* C6 witness: with lines of 6 characters the same input converted with tickLag
\* 0.1 and 0.5 gives two chords of one pitch under the first, and under the
\* second one chord of two pitches, which the Line Formatter fails on.
C6_Witness ==
    /\ lineLengthLim = 6
    /\ DOMAIN conversions = {Tenths(1), Tenths(5)}
    /\ ~conversions[Tenths(1)].threw
    /\ conversions[Tenths(5)].threw
    /\ conversions[Tenths(5)].stage = "obtainSheetMusic"
    /\ Len(conversions[Tenths(1)].reducedScore) = 2
    /\ Len(conversions[Tenths(5)].reducedScore) = 1
    /\ Len(conversions[Tenths(5)].reducedScore[1][1]) = 2
    /\ timeQuanta([DefaultConfig EXCEPT !.tickLag = Tenths(1)]) = Num(10)

\* C7's input: time-base 480, two tracks, no tempo event, the second track
\* (track 1) one middle-C note-on and its note-off 480 ticks later
C7_Scenario ==
    /\ midi.header = [ticksPerBeat |-> 480]
    /\ Len(midi.tracks) = 2
    /\ midi.tracks[1] = <<>>
    /\ Len(midi.tracks[2]) = 2
    /\ midi.tracks[2][1].type = "noteOn"
    /\ midi.tracks[2][1].noteNumber = 60
    /\ midi.tracks[2][2] = NoteOff(480, 0, 60)
    /\ DefaultConfig.tickLag \in DOMAIN conversions

\* the milliseconds the Time Rebaser gives the note-off of C7's input (the
\* rebased track starts with the synthetic tempo event)
C7_RebasedGap == conversions[DefaultConfig.tickLag].opus.tracks[2][3].deltaTime

\* C7 as stated: the 480-tick gap becomes 500 ms, the dominant duration is
\* 500 ms and the header line is `BPM: 120`.
C7_Gap500Bpm120 ==
    C7_Scenario
    => /\ ~conversions[DefaultConfig.tickLag].threw
       /\ C7_RebasedGap = 500
       /\ conversions[DefaultConfig.tickLag].mostFrequentDur = Num(500)
       /\ HeaderLine(conversions[DefaultConfig.tickLag].piano) = BpmLine(120)

\* C7 amended: with tickLag 0.5 (quantum 50 ms) the 480-tick gap becomes
\* 1000 ms (the rebaser starts at 1000 / time-base ms per tick, 60 BPM), the
\* dominant duration is 1000 ms and the header line is `BPM: 60`.
C7_Gap1000Bpm60 ==
    C7_Scenario
    => /\ ~conversions[DefaultConfig.tickLag].threw
       /\ timeQuanta(DefaultConfig) = Num(50)
       /\ C7_RebasedGap = 1000
       /\ conversions[DefaultConfig.tickLag].mostFrequentDur = Num(1000)
       /\ HeaderLine(conversions[DefaultConfig.tickLag].piano) = BpmLine(60)

\* C7 witness: the scenario's input has been converted with the default tickLag
C7_Witness ==
    /\ C7_Scenario
    /\ midi.tracks[2][1] = NoteOn(0, 0, 60, 64)
    /\ conversions[DefaultConfig.tickLag].stage = "finalizeSheetMusic"

RECURSIVE LastTempo(_, _)
\* the microseconds per beat of the last setTempo among the events, or `start`
LastTempo(events, start) ==
    IF events = <<>> THEN start
    ELSE IF events[Len(events)].type = "setTempo"
         THEN events[Len(events)].microsecondsPerBeat
         ELSE LastTempo(SubSeq(events, 1, Len(events) - 1), start)

RECURSIVE PositionAt(_, _, _)
\* the position of the i-th event of a track entered at the tempo `start`, in
\* microseconds-per-beat times ticks: every delta counts at the tempo of the
\* last setTempo before its event
PositionAt(track, i, start) ==
    IF i = 0 THEN 0
    ELSE PositionAt(track, i - 1, start)
         + LastTempo(SubSeq(track, 1, i - 1), start) * track[i].deltaTime

\* the events of a track other than its tempo changes
EmittedIdx(track) == {i \in 1..Len(track) : track[i].type # "setTempo"}

\* the milliseconds from the emitted event before the i-th event (or from the
\* track's start) to the i-th event, rounded
MsDelta(track, i, start, tpq) ==
    LET before == {j \in EmittedIdx(track) : j < i}
        prev == IF before = {} THEN 0
                ELSE CHOOSE j \in before : \A k \in before : k <= j
    IN RoundRatio(PositionAt(track, i, start) - PositionAt(track, prev, start), 1000 * tpq)

\* the rebased track of a track entered at the tempo `start`: the synthetic
\* tempo event, then its events other than tempo changes with millisecond deltas
Rebased(track, start, tpq) ==
    LET idx == Ascending(EmittedIdx(track)) IN
    <<SetTempo(0, 1000000)>>
    \o [k \in 1..Len(idx) |->
           [track[idx[k]] EXCEPT !.deltaTime = MsDelta(track, idx[k], start, tpq)]]

\* C13 as stated: the Time Rebaser starts every track at the default rate
\* (1000 / time-base ms per tick), so a setTempo in one track does not change
\* the millisecond deltas of the events of any other track.
C13_EveryTrackStartsAtDefaultRate ==
    \A l \in DOMAIN conversions :
        \A t \in 1..Len(midi.tracks) :
            conversions[l].opus.tracks[t]
            = Rebased(midi.tracks[t], 1000000, midi.header.ticksPerBeat)

\* C13 amended: only the first track starts at the default rate; every later
\* track starts at the rate of the last setTempo of the tracks before it (the
\* default when they have none), so a setTempo changes the deltas of the
\* events after it in its track and of the tracks after it, and no others.
C13_TrackStartsAtLastTempoBefore ==
    \A l \in DOMAIN conversions :
        /\ Len(conversions[l].opus.tracks) = Len(midi.tracks)
        /\ \A t \in 1..Len(midi.tracks) :
              conversions[l].opus.tracks[t]
              = Rebased(midi.tracks[t],
                        LastTempo(Concat(SubSeq(midi.tracks, 1, t - 1)), 1000000),
                        midi.header.ticksPerBeat)

\* C13 witness: a setTempo of 500000 in the first track and a note of 480 ticks
\* in the second, rebased to 500 ms
C13_Witness ==
    /\ DOMAIN conversions # {}
    /\ midi.tracks = << <<SetTempo(0, 500000)>>,
                        <<NoteOn(0, 0, 60, 64), NoteOff(480, 0, 60)>> >>
    /\ \A l \in DOMAIN conversions :
          conversions[l].opus.tracks[2]
          = <<SetTempo(0, 1000000), NoteOn(0, 0, 60, 64), NoteOff(500, 0, 60)>>

---------------------------------------------------------------------------
(* Claims about the TrackManager, checked under SpecManager *)

\* MIDI track number n has an identified Track entry that is disabled
DisabledByNumber(n) ==
    \E i \in 1..Len(identifiedTracks) :
        identifiedTracks[i].track = n /\ identifiedTracks[i].disabled

\* the numbers of the MIDI tracks the last toPiano handed to the converter
HandedNumbers == {handed.tracks[i] : i \in 1..Len(handed.tracks)}

\* C5: after setMidi and any sequence of enable/disable calls, a MIDI track is
\* left out of the tracks toPiano hands to the converter if and only if it has
\* an identified Track entry, matched by its `track` number, that is disabled.
C5_ExcludedIffDisabledByNumber ==
    (handed.called /\ ~handed.threw)
    => \A n \in 0..(Len(midiObject[1]) - 1) :
           (n \notin HandedNumbers) <=> DisabledByNumber(n)

---------------------------------------------------------------------------
(* Claims about the Line Formatter, checked under SpecFormatter *)

\* every token read so far is shorter than lineLengthLim - 2
TokensShort ==
    \A i \in 1..Len(tokensRead) : Len(tokensRead[i]) < lineLengthLim - 2

\* the lines of the formatted sheet, without a terminator left at a line's end
FormattedLines ==
    LET lines == Split(Concat(splitList), Head(DefaultConfig.endOfLineChar))
    IN [i \in 1..Len(lines) |-> rstrip(",", lines[i])]

\* C8: every line of chord tokens produced by the Line Formatter is at most
\* lineLengthLim characters long, counting the terminators between tokens, for
\* every token stream in which each token is shorter than lineLengthLim - 2.
C8_LinesWithinLineLengthLim ==
    (explodePc \in {"loop", "break", "done"} /\ TokensShort)
    => \A i \in 1..Len(FormattedLines) : Len(FormattedLines[i]) <= lineLengthLim

\* the number of line breaks in the formatted sheet
LineBreaks ==
    Cardinality({i \in 1..Len(splitList) :
                    splitList[i][Len(splitList[i])] = Head(DefaultConfig.endOfLineChar)})

\* C12: the Line Formatter's output spans at most linesLimit lines of tokens:
\* it inserts at most linesLimit - 1 line breaks, and what it keeps is the
\* first tokens of the stream, each one whole and followed by its terminator
\* or by a line break; the tokens beyond the limit are dropped.
C12_AtMostLinesLimitLines ==
    explodePc \in {"loop", "break", "done"}
    => /\ LineBreaks <= linesLimit - 1
       /\ Len(Split(Concat(splitList), Head(DefaultConfig.endOfLineChar))) <= linesLimit
       /\ Len(splitList) <= Len(tokensRead)
       /\ \A i \in 1..Len(splitList) :
             \/ splitList[i] = tokensRead[i] \o <<",">>
             \/ splitList[i] = tokensRead[i] \o DefaultConfig.endOfLineChar

\* C12 witness: with linesLimit = 2 the one line break is in, the token that
\* caused it is kept whole on the second line and the next token is dropped;
\* one of the tokens kept is the empty one between two terminators
C12_Witness ==
    /\ explodePc = "break"
    /\ linesLimit = 2
    /\ LineBreaks = 1
    /\ Len(splitList) >= 2
    /\ \E i \in 1..Len(splitList) : tokensRead[i] = <<>>
    /\ Len(tokensRead) = Len(splitList) + 1
    /\ tokensRead[Len(tokensRead)] # <<>>
    /\ splitList[Len(splitList)] = tokensRead[Len(splitList)] \o <<",">>

\* C14: the Line Formatter returns normally for every token stream and every
\* lineLengthLim >= 1, also when the very first token is longer than
\* lineLengthLim - 2.
C14_FormatterNeverThrows == explodePc # "threw"

---------------------------------------------------------------------------
(* Claims about the Notation Renderer, checked under SpecRenderer *)

\* the i-th rendered pitch after transposition, its octave and its degree
RenderedNum(i) == rendered[i] + DefaultConfig.octaveKeys * octaveTranspose
RenderedOctave(i) == RenderedNum(i) \div DefaultConfig.octaveKeys
RenderedInRange(i) == RenderedOctave(i) \in 1..DefaultConfig.highestOctave
RenderedDegree(i) == RenderedNum(i) % DefaultConfig.octaveKeys

\* the degrees of the naturals C, D, F, G and A; the sharp of each is one higher
NaturalsWithSharp == {0, 2, 5, 7, 9}

\* the i-th rendered note is in range and is the natural of degree k or its sharp
OfLetter(i, k) == RenderedInRange(i) /\ RenderedDegree(i) \in {k, k + 1}

\* the most recent in-range note of the letter of degree k before position i
\* was its sharp
SharpWasLast(i, k) ==
    \E j \in 1..(i - 1) :
        /\ OfLetter(j, k)
        /\ RenderedDegree(j) = k + 1
        /\ \A m \in (j + 1)..(i - 1) : ~OfLetter(m, k)

\* the rendered name carries the natural-cancel marker
HasN(str) == Len(str) >= 2 /\ str[2] = "n"

\* C9: a natural C, D, F, G or A is printed with the natural-cancel marker `n`
\* exactly when the accidental flag of its letter is active, that is when the
\* most recent earlier in-range note of that letter was its sharp; rendering
\* the natural clears the flag, and no other note is printed with `n`. Pitch 61
\* followed by pitch 60 renders C# (with the octave digit when the octave is
\* not the remembered one) and then Cn.
C9_NaturalCancelIffSharpWasLast ==
    /\ \A i \in 1..Len(rendered) :
          HasN(strings[i]) <=>
              /\ RenderedInRange(i)
              /\ RenderedDegree(i) \in NaturalsWithSharp
              /\ SharpWasLast(i, RenderedDegree(i))
    /\ \A k \in NaturalsWithSharp :
          curAccidentals[inclusionTable[k]] <=> SharpWasLast(Len(rendered) + 1, k)
    /\ (Len(rendered) >= 2 /\ rendered[1] = 61 /\ rendered[2] = 60 /\ RenderedInRange(1))
       => /\ strings[1] = <<"C", "#">> \o (IF RenderedOctave(1) = InitialOctaves[1]
                                            THEN <<>> ELSE IntToStr(RenderedOctave(1)))
          /\ strings[2] = <<"C", "n">>

\* C9 witness: C#, C, C in the remembered octave have been rendered as C#, Cn, C
C9_Witness ==
    /\ octaveTranspose = 0 - 2
    /\ rendered = <<61, 60, 60>>
    /\ strings = << <<"C", "#">>, <<"C", "n">>, <<"C">> >>

---------------------------------------------------------------------------
(* Claims about the dominant duration, checked under SpecQuantizer *)

QuantDurationAt(i) == quantScore[i][1]

\* how often the duration d occurs in the quantized sequence
Occurrences(d) == Cardinality({i \in 1..Len(quantScore) : QuantDurationAt(i) = d})

\* the first position of the duration d
FirstPosition(d) ==
    CHOOSE i \in 1..Len(quantScore) :
        /\ QuantDurationAt(i) = d
        /\ \A j \in 1..(i - 1) : QuantDurationAt(j) # d

NonZeroDurations ==
    {QuantDurationAt(i) : i \in 1..Len(quantScore)} \ {Zero}

\* C10: for every quantized sequence with a nonzero duration, the dominant
\* duration is a nonzero duration of the sequence that occurs at least as
\* often as every other nonzero duration and, among the equally frequent ones,
\* appears first; durations of zero are never counted.
C10_DominantIsFirstMostFrequentNonZero ==
    (quantizerPc = "done" /\ NonZeroDurations # {})
    => /\ commonDur \in NonZeroDurations
       /\ \A d \in NonZeroDurations :
             /\ Occurrences(d) <= Occurrences(commonDur)
             /\ (d # commonDur /\ Occurrences(d) = Occurrences(commonDur))
                => FirstPosition(commonDur) < FirstPosition(d)

\* C10 witness: zero is the most frequent duration and 100 and 50 tie behind it
C10_Witness ==
    /\ quantizerPc = "done"
    /\ Len(quantScore) = 4
    /\ [i \in 1..4 |-> QuantDurationAt(i)] = <<Num(0), Num(0), Num(100), Num(50)>>
    /\ commonDur = Num(100)

---------------------------------------------------------------------------
(* Claims about the parsed MIDI, checked under SpecManager *)

\* C11: a conversion never changes the parsed MIDI it is given: after toPiano,
\* and after every enable/disable call that rebuilds the modified MIDI, every
\* track and every event of midiObject has the fields and values parseMidi
\* read from the buffer, and those are the events a conversion reads.
C11_ParsedMidiUnchanged ==
    /\ midiObject = midiBuffer
    /\ (handed.called /\ ~handed.threw)
       => \A i \in 1..Len(handed.tracks) :
              handed.events[i] = midiBuffer[1][handed.tracks[i] + 1]

\* C11 witness: after a disable call has rebuilt the modified MIDI, toPiano has
\* converted a tempo track and a melody whose deltas the Time Rebaser changes,
\* and midiObject still holds all the tracks of the file
C11_Witness ==
    /\ handed.called
    /\ ~handed.threw
    /\ modifiedMidiObject # <<>>
    /\ \E i \in 1..Len(identifiedTracks) : identifiedTracks[i].disabled
    /\ Len(handed.tracks) < Len(midiObject[1])
    /\ \E i, j \in 1..Len(handed.tracks) :
          handed.events[i] = Conductor /\ handed.events[j] = Melody
    /\ midiObject = midiBuffer

=============================================================================
